---- MODULE Spec2Model ----
(***************************************************************************)
(* The FHIR R4 resource server of OneCare (src/fhir-api-server.js): the    *)
(* in-memory resource maps, the create / read / update / search /          *)
(* $everything handlers, and the JavaScript operations they are built on   *)
(* (parseInt, Number.toString, Array.slice, object spread, Map).           *)
(*                                                                         *)
(* A JSON object is a function from the names of its properties to their   *)
(* values: a property the object lacks is not in its DOMAIN.  A JSON       *)
(* string s is [string |-> s] and a JSON number is [number |-> r], r its   *)
(* decimal rendering; an array is a sequence.  Path and query parameters   *)
(* are always strings and are carried bare.                                *)
(***************************************************************************)
EXTENDS Integers, Sequences, FiniteSets, TLC

VARIABLES
    resources,   \* this.resources: one insertion-ordered Map per resource type
    now,         \* the clock new Date() reads, in ms since 2025-01-01T00:00Z
    request,     \* the request the last handler run served
    response,    \* the response that handler sent
    inflight,    \* the requests received whose handler has not run yet
    http,        \* method, path and headers of the last request received
    pager,       \* a client walking through the pages of one search
    cds,         \* the last screening evaluation: its input and its output
    ws,          \* the WebSocket server: open sockets and connectedUsers
    hr           \* the Health Records API: its database, tokens and clock

vars ==
    <<resources, now, request, response, inflight, http, pager, cds, ws, hr>>

-----------------------------------------------------------------------------
(* Bounds of the model *)

\* Each write handler reads the clock once; the clock has advanced since the
\* previous write, and the model stops accepting writes at MaxNow.
MaxNow == 2

-----------------------------------------------------------------------------
(* JavaScript values *)

Str(s) == [string |-> s]
Num(r) == [number |-> r]
IsString(v) == DOMAIN v = {"string"}

\* Whether the object has the property: reading one it lacks gives undefined.
Has(obj, p) == p \in DOMAIN obj

\* {}
EmptyObject == <<>>

\* ToBoolean of a JSON scalar: "", 0 and NaN are falsy.
Truthy(v) ==
    IF IsString(v) THEN v.string # "" ELSE v.number \notin {"0", "NaN"}

\* String(v)
StringOf(v) == IF IsString(v) THEN v.string ELSE v.number

NaN == [nan |-> TRUE, n |-> 0]
Number(i) == [nan |-> FALSE, n |-> i]

Digits == "0123456789"
IsDigit(c) == \E d \in 1..10 : SubSeq(Digits, d, d) = c
DigitVal(c) == (CHOOSE d \in 1..10 : SubSeq(Digits, d, d) = c) - 1

RECURSIVE SkipSpace(_)
SkipSpace(s) ==
    IF s # "" /\ Head(s) = " " THEN SkipSpace(Tail(s)) ELSE s

RECURSIVE ParseDigits(_, _)
ParseDigits(s, acc) ==
    IF s # "" /\ IsDigit(Head(s))
    THEN ParseDigits(Tail(s), acc * 10 + DigitVal(Head(s)))
    ELSE acc

\* parseInt(string): leading blanks, an optional sign, then the longest run of
\* decimal digits; NaN when there is none.
ParseIntStr(s) ==
    LET t == SkipSpace(s)
        signed == t # "" /\ Head(t) \in {"-", "+"}
        u == IF signed THEN Tail(t) ELSE t
    IN  IF u = "" \/ ~IsDigit(Head(u))
        THEN NaN
        ELSE IF signed /\ Head(t) = "-"
             THEN Number(0 - ParseDigits(u, 0))
             ELSE Number(ParseDigits(u, 0))

\* parseInt(v): v is converted to a string first.
ParseInt(v) == ParseIntStr(StringOf(v))

RECURSIVE NatToString(_)
NatToString(n) ==
    IF n < 10
    THEN SubSeq(Digits, n + 1, n + 1)
    ELSE NatToString(n \div 10) \o SubSeq(Digits, (n % 10) + 1, (n % 10) + 1)

\* Number.prototype.toString()
NumberToString(x) ==
    IF x.nan THEN "NaN"
    ELSE IF x.n < 0 THEN "-" \o NatToString(0 - x.n)
    ELSE NatToString(x.n)

\* The + of two numbers: NaN is absorbing.
Add(x, y) == IF x.nan \/ y.nan THEN NaN ELSE Number(x.n + y.n)

\* new Date().toISOString() at clock value t (t < 1000).
IsoString(t) ==
    Str("2025-01-01T00:00:00."
        \o (IF t < 10 THEN "00" ELSE IF t < 100 THEN "0" ELSE "")
        \o NatToString(t) \o "Z")

-----------------------------------------------------------------------------
(* JavaScript Map, as the sequence of its entries in insertion order *)

MapHas(m, k) == \E i \in 1..Len(m) : m[i].key = k

\* Map.get: <<>> for undefined, <<value>> otherwise.
MapGet(m, k) ==
    IF MapHas(m, k)
    THEN <<m[CHOOSE i \in 1..Len(m) : m[i].key = k].value>>
    ELSE <<>>

\* A set that moves an existing key to the end: delete(k), then set(k, v).
MapSetLast(m, k, v) ==
    Append(SelectSeq(m, LAMBDA entry : entry.key # k),
           [key |-> k, value |-> v])

\* A set that starts the map anew: new Map([[k, v]]).
MapReset(m, k, v) == <<[key |-> k, value |-> v]>>

\* Map.set: an existing key keeps its position, a new key is appended.
MapSet(m, k, v) ==
    IF MapHas(m, k)
    THEN [i \in 1..Len(m) |->
            IF m[i].key = k THEN [key |-> k, value |-> v] ELSE m[i]]
    ELSE Append(m, [key |-> k, value |-> v])

\* Array.from(map.values())
MapValues(m) == [i \in 1..Len(m) |-> m[i].value]

-----------------------------------------------------------------------------
(* initializeSampleData.  Of each sample resource the model keeps the      *)
(* properties some handler reads.                                          *)

ResourceTypes == {"Patient", "Observation", "Condition"}

\* A CodeableConcept whose coding holds the one code.
Concept(code) == [coding |-> <<[code |-> Str(code)]>>]

\* { reference: `Patient/${id}` }
Reference(id) == [reference |-> Str("Patient/" \o id)]

samplePatient ==
    [resourceType |-> Str("Patient"),
     id |-> Str("patient-demo-001"),
     meta |-> [versionId |-> Str("1"),
               lastUpdated |-> Str("2024-01-15T10:00:00Z")],
     name |-> <<[family |-> Str("Singhal"), given |-> <<Str("Harsh")>>]>>,
     gender |-> Str("male"),
     birthDate |-> Str("1979-03-15")]

sampleObservation ==
    [resourceType |-> Str("Observation"),
     id |-> Str("obs-bp-001"),
     meta |-> [versionId |-> Str("1"),
               lastUpdated |-> Str("2024-01-15T08:30:00Z")],
     category |-> <<Concept("vital-signs")>>,
     code |-> Concept("85354-9"),
     subject |-> Reference("patient-demo-001"),
     effectiveDateTime |-> Str("2024-01-15T08:30:00Z")]

sampleCondition ==
    [resourceType |-> Str("Condition"),
     id |-> Str("cond-htn-001"),
     meta |-> [versionId |-> Str("1"),
               lastUpdated |-> Str("2024-01-15T09:00:00Z")],
     clinicalStatus |-> Concept("active"),
     category |-> <<Concept("problem-list-item")>>,
     code |-> Concept("38341003"),
     subject |-> Reference("patient-demo-001"),
     onsetDateTime |-> Str("2023-06-01T00:00:00Z")]

\* The maps after the constructor has run.
initializeSampleData ==
    [Patient |-> MapSet(<<>>, samplePatient.id, samplePatient),
     Observation |-> MapSet(<<>>, sampleObservation.id, sampleObservation),
     Condition |-> MapSet(<<>>, sampleCondition.id, sampleCondition),
     Medication |-> <<>>]

-----------------------------------------------------------------------------
(* Responses *)

\* res.status(status).json({ resourceType: 'OperationOutcome',
\*     issue: [{ severity: 'error', code, details: { text } }] })
OperationOutcome(status, code, text) ==
    [status |-> status,
     body |-> [resourceType |-> Str("OperationOutcome"),
               issue |-> <<[severity |-> Str("error"),
                            code |-> Str(code),
                            details |-> [text |-> Str(text)]]>>]]

\* res.status(status).json(resource)
ResourceResponse(status, resource) == [status |-> status, body |-> resource]

\* res.json({ resourceType: 'Bundle', type: 'searchset', total, entry })
Bundle(total, entry) ==
    [status |-> 200,
     body |-> [resourceType |-> Str("Bundle"),
               type |-> Str("searchset"),
               total |-> total,
               entry |-> entry]]

\* list.map(r => ({ resource: r }))
Entries(list) == [i \in 1..Len(list) |-> [resource |-> list[i]]]

\* The 404 with the text `${rtype} ${id} not found`.
NotFound(rtype, id) ==
    OperationOutcome(404, "not-found", rtype \o " " \o id \o " not found")

\* What the catch block of a handler sends for a TypeError.
handleError == OperationOutcome(500, "exception", "TypeError")

-----------------------------------------------------------------------------
(* create: createPatient, createObservation, createCondition *)

\* uuidv4(): an id that is no key of the map.
Uuid(i) == "uuid-" \o NatToString(i)
uuidv4(m) ==
    Uuid(CHOOSE i \in 1..(Len(m) + 1) :
            /\ ~MapHas(m, Str(Uuid(i)))
            /\ \A j \in 1..(i - 1) : MapHas(m, Str(Uuid(j))))

\* const id = data.id || uuidv4()
CreateId(m, body) ==
    IF Has(body, "id") /\ Truthy(body.id) THEN body.id ELSE Str(uuidv4(m))

\* ...data.meta: nothing when the body has no meta.
MetaOf(body) == IF Has(body, "meta") THEN body.meta ELSE EmptyObject

\* { ...data, id, meta: { versionId: '1', lastUpdated: now, ...data.meta } }
\* (f @@ g has f's value where both have the property)
CreatedResource(body, id, t) ==
    [id |-> id,
     meta |-> MetaOf(body)
                  @@ [versionId |-> Str("1"), lastUpdated |-> IsoString(t)]]
        @@ body

\* create without the resourceType validation.
CreateUnvalidated(rtype, body) ==
    /\ request' = [op |-> "create", rtype |-> rtype, body |-> body]
    /\ now < MaxNow
    /\ LET id == CreateId(resources[rtype], body)
           created == CreatedResource(body, id, now)
       IN  /\ resources' =
                 [resources EXCEPT
                     ![rtype] = MapSet(resources[rtype], id, created)]
           /\ response' = ResourceResponse(201, created)
    /\ now' = now + 1

Create(rtype, body) ==
    /\ request' = [op |-> "create", rtype |-> rtype, body |-> body]
    /\ \/ /\ ~(Has(body, "resourceType") /\ body.resourceType = Str(rtype))
          /\ response' =
                 OperationOutcome(400, "invalid",
                                  "Resource must be of type " \o rtype)
          /\ UNCHANGED <<resources, now>>
       \/ /\ Has(body, "resourceType") /\ body.resourceType = Str(rtype)
          /\ now < MaxNow
          /\ LET id == CreateId(resources[rtype], body)
                 created == CreatedResource(body, id, now)
             IN  /\ resources' =
                       [resources EXCEPT
                           ![rtype] = MapSet(resources[rtype], id, created)]
                 /\ response' = ResourceResponse(201, created)
          /\ now' = now + 1

createPatient(body) == Create("Patient", body)
createObservation(body) == Create("Observation", body)
createCondition(body) == Create("Condition", body)

-----------------------------------------------------------------------------
(* read: getPatient, getObservation, getCondition *)

\* What a read of path id `id` answers in the store `store`.
ReadResult(store, rtype, id) ==
    LET found == MapGet(store[rtype], Str(id))
    IN  IF found = <<>>
        THEN NotFound(rtype, id)
        ELSE ResourceResponse(200, found[1])

Read(rtype, id) ==
    /\ request' = [op |-> "read", rtype |-> rtype, id |-> id]
    /\ response' = ReadResult(resources, rtype, id)
    /\ UNCHANGED <<resources, now>>

getPatient(id) == Read("Patient", id)
getObservation(id) == Read("Observation", id)
getCondition(id) == Read("Condition", id)

-----------------------------------------------------------------------------
(* update: updatePatient *)

\* (parseInt(stored.meta.versionId) + 1).toString()
NextVersionId(stored) ==
    Str(NumberToString(Add(ParseInt(stored.meta.versionId), Number(1))))

\* update with the body's id kept: { id, ...data, meta: { ... } }.
UpdatedResourceBodyId(body, id, stored, t) ==
    body
        @@ [id |-> Str(id),
            meta |-> MetaOf(body)
                         @@ [versionId |-> NextVersionId(stored),
                             lastUpdated |-> IsoString(t)]]

\* update as a merge: the properties the body lacks are kept from the stored
\* version, { ...existing, ...data, id, meta: { ...existing.meta, ... } }.
UpdatedResourceMerged(body, id, stored, t) ==
    [id |-> Str(id),
     meta |-> MetaOf(body)
                  @@ [versionId |-> NextVersionId(stored),
                      lastUpdated |-> IsoString(t)]
                  @@ stored.meta]
        @@ body @@ stored

\* { ...data, id, meta: { versionId: next, lastUpdated: now, ...data.meta } }
UpdatedResource(body, id, stored, t) ==
    [id |-> Str(id),
     meta |-> MetaOf(body)
                  @@ [versionId |-> NextVersionId(stored),
                      lastUpdated |-> IsoString(t)]]
        @@ body

\* update as an upsert: an absent id is inserted as version 1.
updatePatientUpsert(id, body) ==
    /\ request' = [op |-> "update", rtype |-> "Patient", id |-> id,
                   body |-> body]
    /\ now < MaxNow
    /\ LET stored ==
               IF MapHas(resources.Patient, Str(id))
               THEN MapGet(resources.Patient, Str(id))[1]
               ELSE [meta |-> [versionId |-> Str("0")]]
           updated == UpdatedResource(body, id, stored, now)
       IN  /\ resources' =
                 [resources EXCEPT
                     !.Patient = MapSet(resources.Patient, Str(id), updated)]
           /\ response' = ResourceResponse(200, updated)
    /\ now' = now + 1

updatePatient(id, body) ==
    /\ request' = [op |-> "update", rtype |-> "Patient", id |-> id,
                   body |-> body]
    /\ \/ /\ ~MapHas(resources.Patient, Str(id))
          /\ response' = NotFound("Patient", id)
          /\ UNCHANGED <<resources, now>>
       \/ /\ MapHas(resources.Patient, Str(id))
          /\ now < MaxNow
          /\ LET stored == MapGet(resources.Patient, Str(id))[1]
                 updated == UpdatedResource(body, id, stored, now)
             IN  /\ resources' =
                       [resources EXCEPT
                           !.Patient =
                               MapSet(resources.Patient, Str(id), updated)]
                 /\ response' = ResourceResponse(200, updated)
          /\ now' = now + 1

-----------------------------------------------------------------------------
(* String.prototype.toLowerCase, includes, startsWith *)

UpperCase == "ABCDEFGHIJKLMNOPQRSTUVWXYZ"
LowerCase == "abcdefghijklmnopqrstuvwxyz"

LowerChar(c) ==
    IF \E i \in 1..26 : SubSeq(UpperCase, i, i) = c
    THEN LET i == CHOOSE i \in 1..26 : SubSeq(UpperCase, i, i) = c
         IN  SubSeq(LowerCase, i, i)
    ELSE c

RECURSIVE ToLowerCase(_)
ToLowerCase(s) ==
    IF s = "" THEN "" ELSE LowerChar(SubSeq(s, 1, 1)) \o ToLowerCase(Tail(s))

Includes(s, sub) ==
    \E i \in 0..(Len(s) - Len(sub)) : SubSeq(s, i + 1, i + Len(sub)) = sub

StartsWith(s, prefix) ==
    Len(prefix) <= Len(s) /\ SubSeq(s, 1, Len(prefix)) = prefix

-----------------------------------------------------------------------------
(* Array.prototype.some, filter and slice.  A callback answers "true",     *)
(* "false" or "throw" (a TypeError on a property of undefined).            *)

Bool(b) == IF b THEN "true" ELSE "false"

\* some(): the callbacks run in order up to the first that is not "false".
Some(results) ==
    IF \E i \in 1..Len(results) : results[i] # "false"
    THEN results[CHOOSE i \in 1..Len(results) :
                    /\ results[i] # "false"
                    /\ \A j \in 1..(i - 1) : results[j] = "false"]
    ELSE "false"

\* a || b, with b evaluated only when a is "false".
OrElse(a, b) == IF a = "false" THEN b ELSE a

\* The list a chain of filters has reached, or the exception one of them threw.
Filtered(list) == [threw |-> FALSE, list |-> list]
Thrown == [threw |-> TRUE, list |-> <<>>]

\* if (param) list = list.filter(test), where verdicts[i] is what the callback
\* answers for list[i]: the callback runs on every element, and an exception
\* of any run leaves the handler's try block.
FilterStep(acc, supplied, verdicts) ==
    IF acc.threw \/ ~supplied
    THEN acc
    ELSE IF \E i \in 1..Len(acc.list) : verdicts[i] = "throw"
         THEN Thrown
         ELSE LET kept == SelectSeq([i \in 1..Len(acc.list) |-> i],
                                    LAMBDA i : verdicts[i] = "true")
              IN  Filtered([k \in 1..Len(kept) |-> acc.list[kept[k]]])

Max(a, b) == IF a >= b THEN a ELSE b
Min(a, b) == IF a <= b THEN a ELSE b

\* The index slice() makes of an argument: NaN is 0, a negative number counts
\* from the end, and the result is clamped to 0..len.
SliceIndex(x, len) ==
    LET rel == IF x.nan THEN 0 ELSE x.n
    IN  IF rel < 0 THEN Max(len + rel, 0) ELSE Min(rel, len)

\* arr.slice(start, end)
Slice(arr, start, end) ==
    SubSeq(arr, SliceIndex(start, Len(arr)) + 1, SliceIndex(end, Len(arr)))

-----------------------------------------------------------------------------
(* search: searchPatients, searchObservations, searchConditions *)

\* if (param): the query has the parameter and it is not the empty string.
Supplied(query, p) == Has(query, p) /\ query[p] # ""

\* The defaults of the destructuring { _count = 20, _offset = 0 }.
DefaultCount == 20
DefaultOffset == 0
CountOf(query) ==
    IF Has(query, "_count")
    THEN Str(query["_count"])
    ELSE Num(NatToString(DefaultCount))
OffsetOf(query) ==
    IF Has(query, "_offset")
    THEN Str(query["_offset"])
    ELSE Num(NatToString(DefaultOffset))

\* list.slice(parseInt(_offset), parseInt(_offset) + parseInt(_count))
Paginate(list, query) ==
    Slice(list, ParseInt(OffsetOf(query)),
          Add(ParseInt(OffsetOf(query)), ParseInt(CountOf(query))))

\* The Bundle of a search, or the 500 of the catch block.
SearchResponse(acc, query) ==
    IF acc.threw
    THEN handleError
    ELSE Bundle(Len(acc.list), Entries(Paginate(acc.list, query)))

\* obj[p].toLowerCase().includes(q): a TypeError unless obj[p] is a string.
LowerIncludes(obj, p, q) ==
    IF ~Has(obj, p) \/ ~IsString(obj[p])
    THEN "throw"
    ELSE Bool(Includes(ToLowerCase(obj[p].string), q))

\* n.given.some(g => g.toLowerCase().includes(q))
\*     || n.family.toLowerCase().includes(q)
HumanNameTest(n, q) ==
    IF ~Has(n, "given")
    THEN "throw"
    ELSE OrElse(Some([i \in 1..Len(n.given) |->
                        LowerIncludes(n.given, i, q)]),
                LowerIncludes(n, "family", q))

\* p.name.some(n => ...)
PatientNameTest(p, name) ==
    IF ~Has(p, "name")
    THEN "throw"
    ELSE Some([i \in 1..Len(p.name) |->
                  HumanNameTest(p.name[i], ToLowerCase(name))])

\* r[p] === value, value a string of the query.
PropertyIs(r, p, value) == Bool(Has(r, p) /\ r[p] = Str(value))

PatientMatches(store, query) ==
    LET all == Filtered(MapValues(store.Patient))
        byName ==
            FilterStep(all, Supplied(query, "name"),
                       [i \in 1..Len(all.list) |->
                           PatientNameTest(all.list[i], query.name)])
        byBirthdate ==
            FilterStep(byName, Supplied(query, "birthdate"),
                       [i \in 1..Len(byName.list) |->
                           PropertyIs(byName.list[i], "birthDate",
                                      query.birthdate)])
    IN  FilterStep(byBirthdate, Supplied(query, "gender"),
                       [i \in 1..Len(byBirthdate.list) |->
                           PropertyIs(byBirthdate.list[i], "gender",
                                      query.gender)])

\* r.subject && r.subject.reference === `Patient/${patient}`
SubjectTest(r, patient) ==
    Bool(/\ Has(r, "subject")
         /\ Has(r.subject, "reference")
         /\ r.subject.reference = Str("Patient/" \o patient))

\* concept.coding.some(coding => coding.code === code)
CodingTest(concept, code) ==
    IF ~Has(concept, "coding")
    THEN "throw"
    ELSE Some([i \in 1..Len(concept.coding) |->
                  PropertyIs(concept.coding[i], "code", code)])

\* o.category && o.category.some(cat => cat.coding.some(...))
CategoryTest(o, category) ==
    IF ~Has(o, "category")
    THEN "false"
    ELSE Some([i \in 1..Len(o.category) |->
                  CodingTest(o.category[i], category)])

\* r[p] && r[p].startsWith(date): a TypeError on a truthy non-string.
DateTest(r, p, date) ==
    IF ~Has(r, p) \/ ~Truthy(r[p]) THEN "false"
    ELSE IF ~IsString(r[p]) THEN "throw"
    ELSE Bool(StartsWith(r[p].string, date))

\* r[p] && r[p].coding.some(coding => coding.code === code)
ConceptTest(r, p, code) ==
    IF ~Has(r, p) THEN "false" ELSE CodingTest(r[p], code)

ObservationMatches(store, query) ==
    LET all == Filtered(MapValues(store.Observation))
        byPatient ==
            FilterStep(all, Supplied(query, "patient"),
                       [i \in 1..Len(all.list) |->
                           SubjectTest(all.list[i], query.patient)])
        byCategory ==
            FilterStep(byPatient, Supplied(query, "category"),
                       [i \in 1..Len(byPatient.list) |->
                           CategoryTest(byPatient.list[i], query.category)])
        byDate ==
            FilterStep(byCategory, Supplied(query, "date"),
                       [i \in 1..Len(byCategory.list) |->
                           DateTest(byCategory.list[i], "effectiveDateTime",
                                    query.date)])
    IN  FilterStep(byDate, Supplied(query, "code"),
                       [i \in 1..Len(byDate.list) |->
                           ConceptTest(byDate.list[i], "code", query.code)])

ConditionMatches(store, query) ==
    LET all == Filtered(MapValues(store.Condition))
        byPatient ==
            FilterStep(all, Supplied(query, "patient"),
                       [i \in 1..Len(all.list) |->
                           SubjectTest(all.list[i], query.patient)])
        byStatus ==
            FilterStep(byPatient, Supplied(query, "clinical-status"),
                       [i \in 1..Len(byPatient.list) |->
                           ConceptTest(byPatient.list[i], "clinicalStatus",
                                       query["clinical-status"])])
    IN  FilterStep(byStatus, Supplied(query, "onset-date"),
                       [i \in 1..Len(byStatus.list) |->
                           DateTest(byStatus.list[i], "onsetDateTime",
                                    query["onset-date"])])

searchPatients(query) ==
    /\ request' = [op |-> "search", rtype |-> "Patient", query |-> query]
    /\ response' = SearchResponse(PatientMatches(resources, query), query)
    /\ UNCHANGED <<resources, now>>

searchObservations(query) ==
    /\ request' = [op |-> "search", rtype |-> "Observation", query |-> query]
    /\ response' = SearchResponse(ObservationMatches(resources, query), query)
    /\ UNCHANGED <<resources, now>>

searchConditions(query) ==
    /\ request' = [op |-> "search", rtype |-> "Condition", query |-> query]
    /\ response' = SearchResponse(ConditionMatches(resources, query), query)
    /\ UNCHANGED <<resources, now>>

-----------------------------------------------------------------------------
(* Patient/:id/$everything *)

\* Every resource that has a subject, whoever it is.
RelatedToAnyone(m, id) ==
    SelectSeq(MapValues(m), LAMBDA r : Has(r, "subject"))

\* The resources of the map whose subject.reference is Patient/{id}.
RelatedTo(m, id) ==
    SelectSeq(MapValues(m), LAMBDA r : SubjectTest(r, id) = "true")

EverythingResult(store, id) ==
    LET patient == MapGet(store.Patient, Str(id))
        relatedResources ==
            Entries(patient) \o Entries(RelatedTo(store.Observation, id))
                             \o Entries(RelatedTo(store.Condition, id))
    IN  IF patient = <<>>
        THEN NotFound("Patient", id)
        ELSE Bundle(Len(relatedResources), relatedResources)

patientEverything(id) ==
    /\ request' = [op |-> "everything", rtype |-> "Patient", id |-> id]
    /\ response' = EverythingResult(resources, id)
    /\ UNCHANGED <<resources, now>>

-----------------------------------------------------------------------------
(* The requests the model sends *)

\* The bodies a client sends: a Patient without id, with a string id, with a
\* JSON number as id, and with a meta of its own; an Observation with an id;
\* a Condition without.
PatientBody == [resourceType |-> Str("Patient")]
Bodies ==
    {PatientBody,
     [resourceType |-> Str("Patient"), id |-> Str("a")],
     [resourceType |-> Str("Patient"), id |-> Num("7")],
     [resourceType |-> Str("Patient"), id |-> Str("a"),
      meta |-> [versionId |-> Str("0")]],
     [resourceType |-> Str("Observation"), id |-> Str("a")],
     [resourceType |-> Str("Condition")]}

\* Ids a client puts in a path.
PathIds == {"patient-demo-001", "a", "7"}

\* Before the first request.
NoPager ==
    [phase |-> "idle", query |-> <<>>, count |-> 0, offset |-> 0,
     first |-> <<>>, seen |-> <<>>, stale |-> FALSE]
NoHttp == [method |-> "", path |-> <<>>, headers |-> <<>>]
NoRequest == [op |-> "none"]
NoCds == [op |-> "none"]

\* simple-server.js: no socket is open, the three Maps of connectedUsers are
\* empty and systemMetrics.activeUsers is 0.
NoConnections ==
    [sockets |-> {},
     connectedUsers |-> [admins |-> <<>>, providers |-> <<>>,
                         patients |-> <<>>],
     systemMetrics |-> [activeUsers |-> 0]]

\* health-records-api.js: the database after the constructor, without the
\* users and categories, which no handler changes; no token is issued yet,
\* no uuid drawn, and the clock is at day 0.
initializeDatabase ==
    [sessions |-> <<>>, records |-> <<>>, shares |-> <<>>,
     tokens |-> {}, uuids |-> 0, day |-> 0]
NoResponse == [status |-> 0]

Init ==
    /\ resources = initializeSampleData
    /\ now = 0
    /\ request = NoRequest
    /\ response = NoResponse
    /\ inflight = <<>>
    /\ http = NoHttp
    /\ pager = NoPager
    /\ cds = NoCds
    /\ ws = NoConnections
    /\ hr = initializeDatabase

\* Each request is served as it arrives: none waits.
Next ==
    /\ UNCHANGED <<inflight, http, pager, cds, ws, hr>>
    /\ \/ \E body \in Bodies : createPatient(body)
       \/ \E body \in Bodies : createObservation(body)
       \/ \E body \in Bodies : createCondition(body)
       \/ \E id \in PathIds : getPatient(id)
       \/ \E id \in PathIds : getObservation(id)
       \/ \E id \in PathIds : getCondition(id)
       \/ \E id \in PathIds, body \in Bodies : updatePatient(id, body)

Spec == Init /\ [][Next]_vars

-----------------------------------------------------------------------------
(* The requests of the search model *)

\* A named Patient "a", a Patient without name; a laboratory Observation of
\* the sample patient, an Observation of patient "a" whose category has text
\* but no coding, an Observation with no property at all; a Condition of the
\* sample patient and one of patient "a" whose clinicalStatus has no coding.
SearchBodies ==
    {[resourceType |-> Str("Patient"), id |-> Str("a"),
      name |-> <<[family |-> Str("Bo"), given |-> <<Str("Al")>>]>>,
      gender |-> Str("male")],
     PatientBody,
     [resourceType |-> Str("Observation"),
      subject |-> Reference("patient-demo-001"),
      category |-> <<Concept("laboratory")>>,
      code |-> Concept("x"),
      effectiveDateTime |-> Str("2024-02")],
     [resourceType |-> Str("Observation"),
      subject |-> Reference("a"),
      category |-> <<[text |-> Str("t")]>>],
     [resourceType |-> Str("Observation")],
     [resourceType |-> Str("Condition"),
      subject |-> Reference("patient-demo-001"),
      clinicalStatus |-> Concept("active"),
      onsetDateTime |-> Str("2024")],
     [resourceType |-> Str("Condition"),
      subject |-> Reference("a"),
      clinicalStatus |-> [text |-> Str("t")]]}

NoQuery == <<>>

PatientQueries ==
    {NoQuery,
     [name |-> "SING"],
     [gender |-> "male"],
     [gender |-> "male", _count |-> "1", _offset |-> "1"],
     [birthdate |-> "1979-03-15"]}

ObservationQueries ==
    {NoQuery,
     [patient |-> "patient-demo-001"],
     [patient |-> "patient-demo-001", category |-> "laboratory",
      _count |-> "1", _offset |-> "0"],
     [category |-> "vital-signs"],
     [date |-> "2024-01"],
     [code |-> "x"],
     [_count |-> "1", _offset |-> "1"],
     [_count |-> "-1"],
     [_offset |-> "-1"],
     [_count |-> "all"]}

ConditionQueries ==
    {NoQuery,
     [patient |-> "a"],
     "clinical-status" :> "active",
     "onset-date" :> "2023" @@ [_count |-> "1"]}

SearchNext ==
    /\ UNCHANGED <<inflight, http, pager, cds, ws, hr>>
    /\ \/ \E body \in SearchBodies : createPatient(body)
       \/ \E body \in SearchBodies : createObservation(body)
       \/ \E body \in SearchBodies : createCondition(body)
       \/ \E query \in PatientQueries : searchPatients(query)
       \/ \E query \in ObservationQueries : searchObservations(query)
       \/ \E query \in ConditionQueries : searchConditions(query)
       \/ \E id \in PathIds : patientEverything(id)

SearchSpec == Init /\ [][SearchNext]_vars

-----------------------------------------------------------------------------
(* Overlapping updates.  express.json() reads a request's body             *)
(* asynchronously, so several requests can have arrived before the handler *)
(* of any of them runs, and the handlers run in the order the bodies       *)
(* complete.  updatePatient itself awaits nothing: once entered it runs to *)
(* its response without another handler in between.                        *)

\* Requests a client may have outstanding at once.
MaxInflight == 2

\* Update bodies: two without meta that differ in a payload field, and one
\* with a meta of its own.
UpdateBodies ==
    {[resourceType |-> Str("Patient"), gender |-> Str("female")],
     [resourceType |-> Str("Patient"), id |-> Str("zzz"),
      birthDate |-> Str("1980-01-01")],
     [resourceType |-> Str("Patient"),
      meta |-> [versionId |-> Str("draft"), source |-> Str("import")]]}

\* PUT /fhir/Patient/:id arrives; its body is still being read.
Arrive(id, body) ==
    /\ Len(inflight) < MaxInflight
    /\ inflight' = Append(inflight, [id |-> id, body |-> body])
    /\ UNCHANGED <<resources, now, request, response>>

\* The body of the i-th waiting request is complete: its handler runs.
Serve(i) ==
    /\ i \in 1..Len(inflight)
    /\ updatePatient(inflight[i].id, inflight[i].body)
    /\ inflight' = SubSeq(inflight, 1, i - 1)
                       \o SubSeq(inflight, i + 1, Len(inflight))

\* GET /fhir/Patient/:id has no body to wait for.
Observe(id) ==
    /\ getPatient(id)
    /\ UNCHANGED inflight

ConcurrentNext ==
    /\ UNCHANGED <<http, pager, cds, ws, hr>>
    /\ \/ \E id \in PathIds, body \in UpdateBodies : Arrive(id, body)
       \/ \E i \in 1..MaxInflight : Serve(i)
       \/ \E id \in PathIds : Observe(id)

ConcurrentSpec == Init /\ [][ConcurrentNext]_vars

-----------------------------------------------------------------------------
(* The Medication routes *)

getMedication(id) == Read("Medication", id)

searchMedications(query) ==
    /\ request' = [op |-> "search", rtype |-> "Medication", query |-> query]
    /\ response' =
           SearchResponse(Filtered(MapValues(resources.Medication)), query)
    /\ UNCHANGED <<resources, now>>

-----------------------------------------------------------------------------
(* The request pipeline: the router of setupRoutes, authenticateToken, the *)
(* handler.  A path is the sequence of its segments.                       *)

\* str.split(sep), sep one character.
RECURSIVE Split(_, _)
Split(str, sep) ==
    IF \A i \in 1..Len(str) : SubSeq(str, i, i) # sep
    THEN <<str>>
    ELSE LET i == CHOOSE i \in 1..Len(str) :
                     /\ SubSeq(str, i, i) = sep
                     /\ \A j \in 1..(i - 1) : SubSeq(str, j, j) # sep
         IN  <<SubSeq(str, 1, i - 1)>>
                 \o Split(SubSeq(str, i + 1, Len(str)), sep)

\* authHeader && authHeader.split(' ')[1], "" standing for a falsy token.
TokenOf(headers) ==
    IF ~Has(headers, "authorization") \/ headers.authorization = ""
    THEN ""
    ELSE LET parts == Split(headers.authorization, " ")
         IN  IF Len(parts) >= 2 THEN parts[2] ELSE ""

\* The tokens jwt.verify accepts: signed with this.jwtSecret and not expired.
ValidTokens == {"signed"}

\* authenticateToken with jwt.decode in place of jwt.verify: any token
\* passes.
authenticateTokenDecoded(headers) ==
    IF TokenOf(headers) = ""
    THEN OperationOutcome(401, "login", "Access token required")
    ELSE NoResponse

\* What authenticateToken sends, or NoResponse when it calls next().
authenticateToken(headers) ==
    IF TokenOf(headers) = ""
    THEN OperationOutcome(401, "login", "Access token required")
    ELSE IF TokenOf(headers) \notin ValidTokens
         THEN OperationOutcome(403, "forbidden", "Invalid or expired token")
         ELSE NoResponse

Route(method, path, auth, handler) ==
    [method |-> method, path |-> path, auth |-> auth, handler |-> handler]

\* The routes in the order setupRoutes registers them.
Routes ==
    <<Route("GET", <<"fhir", "metadata">>, FALSE, "getCapabilityStatement"),
      Route("GET", <<"fhir", "Patient", ":id">>, TRUE, "getPatient"),
      Route("GET", <<"fhir", "Patient">>, TRUE, "searchPatients"),
      Route("POST", <<"fhir", "Patient">>, TRUE, "createPatient"),
      Route("PUT", <<"fhir", "Patient", ":id">>, TRUE, "updatePatient"),
      Route("GET", <<"fhir", "Observation", ":id">>, TRUE, "getObservation"),
      Route("GET", <<"fhir", "Observation">>, TRUE, "searchObservations"),
      Route("POST", <<"fhir", "Observation">>, TRUE, "createObservation"),
      Route("GET", <<"fhir", "Condition", ":id">>, TRUE, "getCondition"),
      Route("GET", <<"fhir", "Condition">>, TRUE, "searchConditions"),
      Route("POST", <<"fhir", "Condition">>, TRUE, "createCondition"),
      Route("GET", <<"fhir", "Medication", ":id">>, TRUE, "getMedication"),
      Route("GET", <<"fhir", "Medication">>, TRUE, "searchMedications"),
      Route("GET", <<"fhir", "Patient", ":id", "$everything">>, TRUE,
            "patientEverything")>>

\* The route matches the request: same method, and segment by segment the
\* same text or a :parameter.
Matches(route, method, path) ==
    /\ route.method = method
    /\ Len(route.path) = Len(path)
    /\ \A i \in 1..Len(path) :
           \/ route.path[i] = path[i]
           \/ SubSeq(route.path[i], 1, 1) = ":" /\ path[i] # ""

\* The first route that matches, <<>> when none does.
RouteOf(method, path) ==
    LET hits == SelectSeq(Routes, LAMBDA r : Matches(r, method, path))
    IN  IF hits = <<>> THEN <<>> ELSE <<hits[1]>>

RECURSIVE PathString(_)
PathString(path) ==
    IF path = <<>> THEN "" ELSE "/" \o Head(path) \o PathString(Tail(path))

\* No route matched and no error was raised: Express ends the request itself
\* with 404 and the page "Cannot METHOD /path".
finalhandler(method, path) ==
    [status |-> 404,
     body |-> [html |-> "Cannot " \o method \o " " \o PathString(path)]]

\* The answer of a request the router or authenticateToken ends.
Ended(answer) ==
    /\ request' = NoRequest
    /\ response' = answer
    /\ UNCHANGED <<resources, now>>

\* res.json(capabilityStatement)
getCapabilityStatement ==
    /\ request' = [op |-> "metadata"]
    /\ response' =
           ResourceResponse(200, [resourceType |-> Str("CapabilityStatement"),
                                  status |-> Str("active"),
                                  date |-> IsoString(now)])
    /\ UNCHANGED <<resources, now>>

\* The handler of the route, with req.params.id, req.body and req.query.
Handler(name, id, body, query) ==
    \/ name = "getCapabilityStatement" /\ getCapabilityStatement
    \/ name = "getPatient" /\ getPatient(id)
    \/ name = "searchPatients" /\ searchPatients(query)
    \/ name = "createPatient" /\ createPatient(body)
    \/ name = "updatePatient" /\ updatePatient(id, body)
    \/ name = "getObservation" /\ getObservation(id)
    \/ name = "searchObservations" /\ searchObservations(query)
    \/ name = "createObservation" /\ createObservation(body)
    \/ name = "getCondition" /\ getCondition(id)
    \/ name = "searchConditions" /\ searchConditions(query)
    \/ name = "createCondition" /\ createCondition(body)
    \/ name = "getMedication" /\ getMedication(id)
    \/ name = "searchMedications" /\ searchMedications(query)
    \/ name = "patientEverything" /\ patientEverything(id)

\* One request through the application.
Receive(method, path, headers, body, query) ==
    /\ http' = [method |-> method, path |-> path, headers |-> headers]
    /\ UNCHANGED <<inflight, pager, cds, ws, hr>>
    /\ LET route == RouteOf(method, path)
       IN  \/ /\ route = <<>>
              /\ Ended(finalhandler(method, path))
           \/ /\ route # <<>>
              /\ route[1].auth
              /\ authenticateToken(headers) # NoResponse
              /\ Ended(authenticateToken(headers))
           \/ /\ route # <<>>
              /\ route[1].auth => authenticateToken(headers) = NoResponse
              /\ Handler(route[1].handler,
                         IF Len(path) >= 3 THEN path[3] ELSE "",
                         body, query)

Methods == {"GET", "POST", "PUT", "DELETE"}

Paths ==
    {<<"fhir", "metadata">>,
     <<"fhir", "Patient">>,
     <<"fhir", "Patient", "patient-demo-001">>,
     <<"fhir", "Patient", "patient-demo-001", "$everything">>,
     <<"fhir", "Observation">>,
     <<"fhir", "Observation", "obs-bp-001">>,
     <<"fhir", "Condition">>,
     <<"fhir", "Condition", "cond-htn-001">>,
     <<"fhir", "Medication">>,
     <<"fhir", "Medication", "m1">>}

\* No Authorization header, a token jwt.verify rejects, one it accepts.
Headers ==
    {<<>>,
     [authorization |-> "Bearer forged"],
     [authorization |-> "Bearer signed"]}

\* A Patient without name, and an empty body.
ServerBodies == {PatientBody, EmptyObject}

ServerQueries == {NoQuery, [name |-> "sing"]}

\* A POST or PUT carries a body, a GET or DELETE a query string.
ServerNext ==
    \E method \in Methods, path \in Paths, headers \in Headers :
        \/ /\ method \in {"POST", "PUT"}
           /\ \E body \in ServerBodies :
                  Receive(method, path, headers, body, NoQuery)
        \/ /\ method \in {"GET", "DELETE"}
           /\ \E query \in ServerQueries :
                  Receive(method, path, headers, EmptyObject, query)

ServerSpec == Init /\ [][ServerNext]_vars

-----------------------------------------------------------------------------
(* A client that pages through a Patient search: _count = c and            *)
(* _offset = 0, c, 2c, ... until the offset reaches the total of the last  *)
(* Bundle.  Other clients update Patients between its calls, and create    *)
(* Patients only while it is not paging.                                   *)

\* The ids of a list of resources.
Ids(list) == [i \in 1..Len(list) |-> list[i].id]

\* The ids of the resources in the entry of a Bundle.
EntryIds(bundle) ==
    [i \in 1..Len(bundle.entry) |-> bundle.entry[i].resource.id]

\* The query of the page at the offset.
PageQuery(query, count, offset) ==
    query @@ [_count |-> NatToString(count), _offset |-> NatToString(offset)]

\* The pager after the answer to the page at its offset has arrived: it
\* gives up on an error.  stale records that the matches are no longer those
\* of the first page.
Paged(p, answer, matching) ==
    IF answer.status # 200
    THEN [p EXCEPT !.phase = "failed"]
    ELSE [p EXCEPT
             !.phase = IF p.offset + p.count >= answer.body.total
                       THEN "done" ELSE "paging",
             !.offset = p.offset + p.count,
             !.seen = p.seen \o EntryIds(answer.body),
             !.stale = p.stale \/ matching # p.first]

StartPaging(query, count) ==
    /\ pager.phase # "paging"
    /\ searchPatients(PageQuery(query, count, 0))
    /\ LET matching == Ids(PatientMatches(resources, query).list)
       IN  pager' = Paged([NoPager EXCEPT !.query = query, !.count = count,
                                          !.first = matching],
                          response', matching)
    /\ UNCHANGED <<inflight, http, cds, ws, hr>>

NextPage ==
    /\ pager.phase = "paging"
    /\ searchPatients(PageQuery(pager.query, pager.count, pager.offset))
    /\ pager' = Paged(pager, response',
                      Ids(PatientMatches(resources, pager.query).list))
    /\ UNCHANGED <<inflight, http, cds, ws, hr>>

\* A create while no client is paging; a finished walk is forgotten.
CreateBetweenWalks(body) ==
    /\ pager.phase # "paging"
    /\ createPatient(body)
    /\ pager' = NoPager
    /\ UNCHANGED <<inflight, http, cds, ws, hr>>

\* An update at any time; a finished walk is forgotten.
UpdateAnytime(id, body) ==
    /\ updatePatient(id, body)
    /\ pager' = IF pager.phase = "paging" THEN pager ELSE NoPager
    /\ UNCHANGED <<inflight, http, cds, ws, hr>>

\* A male and a female Patient, and a Patient without gender.
PagingBodies ==
    {[resourceType |-> Str("Patient"), gender |-> Str("male")],
     [resourceType |-> Str("Patient"), gender |-> Str("female")],
     PatientBody}

PagingQueries == {NoQuery, [gender |-> "male"], [name |-> "sing"]}
PagingIds == {"patient-demo-001", Uuid(1)}

\* The page sizes a client asks for.
MaxCount == 2

PagingNext ==
    \/ \E query \in PagingQueries, count \in 1..MaxCount :
           StartPaging(query, count)
    \/ NextPage
    \/ \E body \in PagingBodies : CreateBetweenWalks(body)
    \/ \E id \in PagingIds, body \in PagingBodies : UpdateAnytime(id, body)

PagingSpec == Init /\ [][PagingNext]_vars

-----------------------------------------------------------------------------
(* Properties of create, read and update *)

\* The id of a resource as a client writes it into a request path.
PathSegment(v) == StringOf(v)

\* A handler run that answered 201 to a create.
Created == request.op = "create" /\ response.status = 201

\* C1: round trip.  Right after a successful create (so before any other
\* write), a read of the returned id answers 200 with exactly the resource
\* the create returned.
C1_RoundTrip ==
    Created =>
        ReadResult(resources, request.rtype, PathSegment(response.body.id))
            = ResourceResponse(200, response.body)

\* The step is a successful update of an existing Patient.
UpdateStep ==
    /\ request'.op = "update"
    /\ response'.status = 200
    /\ now' # now

StoredVersion(store, id) ==
    ParseInt(MapGet(store.Patient, Str(id))[1].meta.versionId)

\* C2: every successful update of a Patient leaves a versionId that is, as an
\* integer, strictly greater than the versionId stored before.
C2_VersionIncreases ==
    [][UpdateStep =>
        LET old == StoredVersion(resources, request'.id)
            new == StoredVersion(resources', request'.id)
        IN  ~old.nan /\ ~new.nan /\ new.n > old.n]_vars

\* C3: after every successful create the returned resource, which is the
\* stored one, has meta.versionId "1".
C3_CreateVersionOne ==
    Created =>
        /\ response.body.meta.versionId = Str("1")
        /\ MapGet(resources[request.rtype], response.body.id)
               = <<response.body>>

\* The body of the request names another resource type than the endpoint.
Mismatch(req) ==
    ~(Has(req.body, "resourceType")
      /\ req.body.resourceType = Str(req.rtype))

\* C4: a create whose body.resourceType differs from the endpoint's type is
\* answered 400 'invalid' and changes no resource map.
C4_MismatchRejected ==
    [][(request'.op = "create" /\ Mismatch(request'))
       => /\ response' =
                 OperationOutcome(400, "invalid",
                                  "Resource must be of type " \o request'.rtype)
          /\ resources' = resources]_vars

C4_Witness ==
    /\ request.op = "create"
    /\ request.rtype = "Observation"
    /\ request.body.resourceType = Str("Patient")
    /\ response.status = 400

\* C5: an update addressed to a Patient id that is not in the store is
\* answered 404 'not-found' and leaves the store as it was.
C5_UpdateAbsentNotFound ==
    [][(/\ request'.op = "update"
        /\ ~MapHas(resources.Patient, Str(request'.id)))
       => /\ response'.status = 404
          /\ response'.body.issue[1].code = Str("not-found")
          /\ resources' = resources]_vars

C5_Witness ==
    /\ request.op = "update"
    /\ response.status = 404
    /\ ~MapHas(resources.Patient, Str(request.id))
    /\ now > 0

\* C6: no create changes a resource that is already stored: every entry of
\* every map before a create step is the same entry after it.
C6_CreateNeverReplaces ==
    [][request'.op = "create" =>
        \A t \in ResourceTypes :
            \A i \in 1..Len(resources[t]) :
                /\ i <= Len(resources'[t])
                /\ resources'[t][i] = resources[t][i]]_vars

\* C7: every resource held in the map of type T has resourceType T.
C7_StoredTypeMatchesMap ==
    \A t \in ResourceTypes :
        \A i \in 1..Len(resources[t]) :
            resources[t][i].value.resourceType = Str(t)

\* The step serves a waiting update of a stored Patient, its body without
\* meta.
ServedPlainUpdate ==
    /\ request'.op = "update"
    /\ Len(inflight') < Len(inflight)
    /\ MapHas(resources.Patient, Str(request'.id))
    /\ ~Has(request'.body, "meta")

\* C11: overlapping updates of one stored Patient are served one after the
\* other, last writer wins.  Each update without meta that is served answers
\* 200 whatever version it was based on, receives the versionId that follows
\* the stored one, and leaves its own body stored; every read answers a
\* whole version: the id of the path and a meta with versionId and
\* lastUpdated.
C11_LastWriterWins ==
    [][/\ ServedPlainUpdate =>
           LET old == StoredVersion(resources, request'.id)
               new == StoredVersion(resources', request'.id)
           IN  /\ response'.status = 200
               /\ ~old.nan /\ ~new.nan /\ new.n = old.n + 1
               /\ MapGet(resources'.Patient, Str(request'.id))
                      = <<response'.body>>
               /\ \A f \in DOMAIN request'.body \ {"id"} :
                      response'.body[f] = request'.body[f]
       /\ (request'.op = "read" /\ response'.status = 200) =>
               /\ response'.body.id = Str(request'.id)
               /\ DOMAIN response'.body.meta
                      = {"versionId", "lastUpdated"}
                            \cup DOMAIN MetaOf(response'.body)]_vars

C13_NeverRemoved ==
    [][\A t \in ResourceTypes :
          /\ \A i \in 1..Len(resources[t]) :
                 MapHas(resources'[t], resources[t][i].key)
          /\ \A id \in PathIds :
                 ReadResult(resources, t, id).status = 200
                     => ReadResult(resources', t, id).status = 200]_vars

\* After two writes that added two Patients, the seeded Patient is read.
C13_Witness ==
    /\ now = MaxNow
    /\ Len(resources.Patient) = 3
    /\ request = [op |-> "read", rtype |-> "Patient",
                  id |-> "patient-demo-001"]
    /\ response = ResourceResponse(200, samplePatient)

-----------------------------------------------------------------------------
(* Properties of paging *)

\* The id occurs exactly once in the sequence.
OccursOnce(id, seq) == Cardinality({i \in 1..Len(seq) : seq[i] = id}) = 1

\* The place of the id in the insertion order of the Patient map.
PlaceOf(store, id) ==
    CHOOSE i \in 1..Len(store.Patient) : store.Patient[i].key = id

-----------------------------------------------------------------------------
(* Properties of the request pipeline *)

\* The body is an OperationOutcome whose issues carry severity, code and
\* details.text.
IsOperationOutcome(body) ==
    /\ Has(body, "resourceType")
    /\ body.resourceType = Str("OperationOutcome")
    /\ Has(body, "issue")
    /\ body.issue # <<>>
    /\ \A i \in 1..Len(body.issue) :
           /\ Has(body.issue[i], "severity")
           /\ Has(body.issue[i], "code")
           /\ Has(body.issue[i], "details")
           /\ Has(body.issue[i].details, "text")

\* C14: every error response (status 400 and above), the 404 of a request
\* no route matches included, is an OperationOutcome with severity, code and
\* details.text.
C14_ErrorsAreOutcomes ==
    response.status >= 400 => IsOperationOutcome(response.body)

\* C15: on every route but /fhir/metadata the token is checked before the
\* handler.  A request without token is answered 401 and one with a token
\* jwt.verify rejects 403; no handler has served it, the answer is an
\* OperationOutcome, so no stored resource, and the store is unchanged.
C15_AuthBeforeHandler ==
    [][LET route == RouteOf(http'.method, http'.path)
           token == TokenOf(http'.headers)
       IN  (/\ route # <<>>
            /\ route[1].path # <<"fhir", "metadata">>
            /\ token \notin ValidTokens)
           => /\ response'.status = IF token = "" THEN 401 ELSE 403
              /\ IsOperationOutcome(response'.body)
              /\ request' = NoRequest
              /\ resources' = resources
              /\ now' = now]_vars

\* After a write, an update of the seeded Patient with a forged token is
\* answered 403.
C15_Witness ==
    /\ http = [method |-> "PUT",
               path |-> <<"fhir", "Patient", "patient-demo-001">>,
               headers |-> [authorization |-> "Bearer forged"]]
    /\ response.status = 403
    /\ now > 0

-----------------------------------------------------------------------------
(* Properties of search and $everything *)

\* What the filter chain of the endpoint reaches for the query.
MatchesOf(store, rtype, query) ==
    IF rtype = "Patient" THEN PatientMatches(store, query)
    ELSE IF rtype = "Observation" THEN ObservationMatches(store, query)
    ELSE ConditionMatches(store, query)

\* The elements of list at the 0-based positions first .. last.
Positions(list, first, last) ==
    SubSeq(list, Max(first, 0) + 1, Min(last + 1, Len(list)))

\* C8: a search whose filters select the list `matches` and whose _count and
\* _offset are integers (20 and 0 when absent) answers a Bundle whose total
\* is the number of matches and whose entry holds exactly the matches at
\* positions _offset .. _offset + _count - 1.
C8_Pagination ==
    request.op = "search" =>
        LET query == request.query
            matches == MatchesOf(resources, request.rtype, query)
            offset == ParseInt(OffsetOf(query))
            count == ParseInt(CountOf(query))
        IN  (~matches.threw /\ ~offset.nan /\ ~count.nan)
            => /\ response.body.resourceType = Str("Bundle")
               /\ response.body.total = Len(matches.list)
               /\ response.body.entry =
                      Entries(Positions(matches.list, offset.n,
                                        offset.n + count.n - 1))

\* Some coding of the concept has the code.
HasCode(concept, code) ==
    /\ Has(concept, "coding")
    /\ \E j \in 1..Len(concept.coding) :
           /\ Has(concept.coding[j], "code")
           /\ concept.coding[j].code = Str(code)

\* The filters of searchObservations as the claim words them: a supplied
\* filter demands the property and a match in it, a resource without the
\* property does not match.
ObservationSatisfies(o, query) ==
    /\ Supplied(query, "patient") =>
           /\ Has(o, "subject")
           /\ Has(o.subject, "reference")
           /\ o.subject.reference = Str("Patient/" \o query.patient)
    /\ Supplied(query, "category") =>
           /\ Has(o, "category")
           /\ \E i \in 1..Len(o.category) :
                  HasCode(o.category[i], query.category)
    /\ Supplied(query, "date") =>
           /\ Has(o, "effectiveDateTime")
           /\ IsString(o.effectiveDateTime)
           /\ StartsWith(o.effectiveDateTime.string, query.date)
    /\ Supplied(query, "code") =>
           /\ Has(o, "code")
           /\ HasCode(o.code, query.code)

\* C9: searchObservations answers a Bundle that counts exactly the stored
\* Observations satisfying every supplied filter; an Observation lacking a
\* filtered property is left out and causes no error.
C9_ObservationFilters ==
    (request.op = "search" /\ request.rtype = "Observation")
    => /\ response.body.resourceType = Str("Bundle")
       /\ response.body.total =
              Cardinality({i \in 1..Len(resources.Observation) :
                              ObservationSatisfies(
                                  resources.Observation[i].value,
                                  request.query)})

\* The stored resources of a map whose subject is Patient/{id}, in map order.
SubjectIs(m, id) ==
    LET Refers(r) ==
            /\ Has(r, "subject")
            /\ Has(r.subject, "reference")
            /\ r.subject.reference = Str("Patient/" \o id)
    IN  SelectSeq([i \in 1..Len(m) |-> m[i].value], Refers)

\* C10: $everything answers 404 not-found for an absent patient; otherwise
\* one Bundle: the Patient first, then exactly the stored Observations and
\* then the stored Conditions whose subject.reference is Patient/{id}, with
\* total = 1 + their number.
C10_Everything ==
    request.op = "everything" =>
        LET patient == MapGet(resources.Patient, Str(request.id))
            observations == SubjectIs(resources.Observation, request.id)
            conditions == SubjectIs(resources.Condition, request.id)
        IN  IF patient = <<>>
            THEN /\ response.status = 404
                 /\ response.body.issue[1].code = Str("not-found")
            ELSE /\ response.status = 200
                 /\ response.body.resourceType = Str("Bundle")
                 /\ response.body.entry =
                        Entries(patient \o observations \o conditions)
                 /\ response.body.total
                        = 1 + Len(observations) + Len(conditions)

\* $everything of the sample patient, answered with the patient, two
\* Observations and a Condition, while the store also holds an Observation
\* of another patient.
C10_Witness ==
    /\ request.op = "everything"
    /\ request.id = "patient-demo-001"
    /\ response.status = 200
    /\ response.body.total >= 3
    /\ \E i \in 1..Len(resources.Observation) :
           /\ Has(resources.Observation[i].value, "subject")
           /\ resources.Observation[i].value.subject = Reference("a")

-----------------------------------------------------------------------------
(* Screening recommendations: js/ml-service.js and simple-server.js.  In
   this part a JavaScript number is an integer and a JavaScript string is a
   string. *)

\* getScreeningHistory(patientId): a placeholder that finds no history.
getScreeningHistory(patientId) == <<>>

\* prepareFeatures(patientData), the features the recommendations read:
\* patientData.age || 0, patientData.gender || 'unknown', and the screening
\* history, which is fetched by the patient's id and not read from patientData.
prepareFeatures(patientData) ==
    [age |-> IF Has(patientData, "age") /\ patientData.age # 0
             THEN patientData.age ELSE 0,
     gender |-> IF Has(patientData, "gender") /\ patientData.gender # ""
                THEN patientData.gender ELSE "unknown",
     screening_history |-> getScreeningHistory(patientData.id)]

generatePreventiveCareRecommendations(features) ==
    IF features.age > 50 /\ features.gender = "female"
    THEN <<[id |-> "mammography", title |-> "Mammography Screening",
            priority |-> 8, type |-> "screening",
            reason |-> "Age-appropriate cancer screening"]>>
    ELSE <<>>

\* The body GET /api/screening/recommendations answers with: the same two
\* recommendations for every request.
screeningRecommendations ==
    [recommendations |->
        <<[id |-> 1, type |-> "mammography",
           title |-> "Mammography Screening",
           description |-> "Annual mammography recommended for women 50-74",
           priority |-> "high", dueDate |-> "2024-01-15"],
          [id |-> 2, type |-> "colonoscopy",
           title |-> "Colorectal Cancer Screening",
           description |-> "Colonoscopy every 10 years for ages 45-75",
           priority |-> "medium", dueDate |-> "2024-03-01"]>>]

\* The preventive-care step of calculateComprehensiveRisk for one patient:
\* prepareFeatures, then generatePreventiveCareRecommendations.  The other
\* recommendations generateRecommendations collects are neither mammography
\* nor colonoscopy, and with at most five in all its slice(0, 10) drops none.
PreventiveCare(patientData) ==
    /\ cds' = [op |-> "generatePreventiveCareRecommendations",
               patient |-> patientData,
               recommendations |->
                   generatePreventiveCareRecommendations(
                       prepareFeatures(patientData))]
    /\ UNCHANGED <<resources, now, request, response, inflight, http, pager,
                 ws, hr>>

\* GET /api/screening/recommendations by a client showing the screening of
\* one patient: the request names no patient and the answer depends on none.
GetScreeningRecommendations(patientData) ==
    /\ cds' = [op |-> "GET /api/screening/recommendations",
               patient |-> patientData,
               recommendations |-> screeningRecommendations.recommendations]
    /\ UNCHANGED <<resources, now, request, response, inflight, http, pager,
                 ws, hr>>

\* Ages on both sides of every bound of the two windows and of the source's
\* own condition.
Ages == {30, 39, 40, 44, 45, 49, 50, 51, 74, 75, 76, 80}
Genders == {"female", "male"}

\* What is on file for the patient: nothing, or an earlier screening.
Histories ==
    {<<>>,
     <<[type |-> "mammography", date |-> "2023-01-10"]>>,
     <<[type |-> "colonoscopy", date |-> "2020-05-01"]>>}

\* Patients with every field, and patients lacking the age or the gender.
PatientData ==
    [id : {"patient-123"}, age : Ages, gender : Genders,
     screeningHistory : Histories]
    \cup [id : {"patient-123"}, gender : Genders, screeningHistory : {<<>>}]
    \cup [id : {"patient-123"}, age : Ages, screeningHistory : {<<>>}]

ScreeningNext ==
    \/ \E patientData \in PatientData : PreventiveCare(patientData)
    \/ \E patientData \in PatientData :
           GetScreeningRecommendations(patientData)

ScreeningSpec == Init /\ [][ScreeningNext]_vars

-----------------------------------------------------------------------------
(* CDS card generator.  The module that defines generateCards is not among
   the sources; it is modelled from the specification's section 4.4. *)

\* The screenings the determinations are about, one determination per rule.
RuleIds == {"mammography", "colonoscopy", "cervical-cancer", "blood-pressure"}

\* Overdue by more than this many days is critical.
OverdueThreshold == 180

\* What the rules engine has determined for one rule: the status, the days
\* overdue (0 if not overdue) and the last performed date, absent when the
\* screening was never recorded.
Outcomes ==
    {[status |-> "up-to-date", daysOverdue |-> 0,
      lastPerformedDate |-> "2023-01-10"],
     [status |-> "not-applicable", daysOverdue |-> 0],
     [status |-> "due", daysOverdue |-> 0, lastPerformedDate |-> "2022-06-15"],
     [status |-> "overdue", daysOverdue |-> 30,
      lastPerformedDate |-> "2022-05-16"],
     [status |-> "overdue", daysOverdue |-> OverdueThreshold],
     [status |-> "overdue", daysOverdue |-> OverdueThreshold + 1,
      lastPerformedDate |-> "2021-12-16"],
     [status |-> "overdue", daysOverdue |-> 400]}

ScreeningDetermination(ruleId, outcome) ==
    [ruleId |-> ruleId, patientId |-> "patient-123"] @@ outcome

\* indicator: critical if overdue by more than the threshold, else warning
\* if overdue, else info.
Indicator(determination) ==
    IF determination.status = "overdue"
    THEN IF determination.daysOverdue > OverdueThreshold
         THEN "critical" ELSE "warning"
    ELSE "info"

\* critical > warning > info
Severity(indicator) ==
    CASE indicator = "critical" -> 3
      [] indicator = "warning" -> 2
      [] indicator = "info" -> 1

\* The card of one determination: its summary names the screening, its
\* detail says why now, and it suggests one action.
CDSCard(determination) ==
    [summary |-> determination.ruleId,
     indicator |-> Indicator(determination),
     detail |-> [lastPerformed |->
                     IF Has(determination, "lastPerformedDate")
                     THEN determination.lastPerformedDate
                     ELSE "never recorded"],
     suggestions |-> <<[resourceType |-> "ServiceRequest",
                        code |-> determination.ruleId]>>,
     source |-> "USPSTF"]

\* A generator that filters nothing.
CardWorthyAll(determinations) == determinations

\* The determinations that get a card: those due or overdue.
CardWorthy(determinations) ==
    SelectSeq(determinations,
              LAMBDA d : d.status \in {"due", "overdue"})

\* An order by severity alone.
GoesBeforeBySeverity(a, b) ==
    Severity(Indicator(a)) > Severity(Indicator(b))

\* a goes before b: a higher severity, or the same one and more days overdue.
GoesBefore(a, b) ==
    \/ Severity(Indicator(a)) > Severity(Indicator(b))
    \/ /\ Severity(Indicator(a)) = Severity(Indicator(b))
       /\ a.daysOverdue > b.daysOverdue

\* d put into a sorted list, behind everything that does not go after it.
RECURSIVE Insert(_, _)
Insert(d, sorted) ==
    IF sorted = <<>> THEN <<d>>
    ELSE IF GoesBefore(d, Head(sorted)) THEN <<d>> \o sorted
    ELSE <<Head(sorted)>> \o Insert(d, Tail(sorted))

\* Sorted by indicator severity, then by daysOverdue descending.
RECURSIVE BySeverity(_)
BySeverity(determinations) ==
    IF determinations = <<>> THEN <<>>
    ELSE Insert(determinations[Len(determinations)],
                BySeverity(SubSeq(determinations, 1,
                                  Len(determinations) - 1)))

generateCards(determinations) ==
    LET sorted == BySeverity(CardWorthy(determinations))
    IN  [i \in 1..Len(sorted) |-> CDSCard(sorted[i])]

MaxDeterminations == 3

\* The rules in every order up to the bound.
RECURSIVE RuleOrders(_)
RuleOrders(n) ==
    IF n = 0 THEN {<<>>}
    ELSE LET shorter == RuleOrders(n - 1)
         IN  shorter
             \cup {Append(order, ruleId) :
                      order \in {o \in shorter : Len(o) = n - 1},
                      ruleId \in RuleIds}

DistinctRules(order) ==
    \A i, j \in 1..Len(order) : order[i] = order[j] => i = j

\* The rules of one patient's determinations, in the order they come in.
Orders == {o \in RuleOrders(MaxDeterminations) : DistinctRules(o)}

\* The rules engine has handed over the determinations of one patient: one
\* per rule, for some rules in some order.
CardInit ==
    /\ resources = initializeSampleData
    /\ now = 0
    /\ request = NoRequest
    /\ response = NoResponse
    /\ inflight = <<>>
    /\ http = NoHttp
    /\ pager = NoPager
    /\ ws = NoConnections
    /\ hr = initializeDatabase
    /\ \E order \in Orders :
           \E outcomes \in [1..Len(order) -> Outcomes] :
               cds = [op |-> "determinations",
                      determinations |->
                          [i \in 1..Len(order) |->
                              ScreeningDetermination(order[i], outcomes[i])]]

GenerateCards ==
    /\ cds.op = "determinations"
    /\ cds' = [op |-> "generateCards",
               determinations |-> cds.determinations,
               cards |-> generateCards(cds.determinations)]
    /\ UNCHANGED <<resources, now, request, response, inflight, http, pager,
                 ws, hr>>

CardNext == GenerateCards

CardSpec == CardInit /\ [][CardNext]_vars

-----------------------------------------------------------------------------
(* Claims: screening eligibility *)

\* The eligibility windows of the two screenings the claims name: mammography
\* for women 40-74, colonoscopy for adults 45-75.
ScreeningRules ==
    [mammography |-> [sex |-> "female", minAge |-> 40, maxAge |-> 74],
     colonoscopy |-> [sex |-> "any", minAge |-> 45, maxAge |-> 75]]

\* The patient's age and sex are known and inside the rule's window.
Eligible(patientData, rule) ==
    /\ Has(patientData, "age")
    /\ Has(patientData, "gender")
    /\ patientData.age >= rule.minAge
    /\ patientData.age <= rule.maxAge
    /\ rule.sex \in {"any", patientData.gender}

\* The screening is on file for the patient.
OnFile(patientData, screening) ==
    \E i \in 1..Len(patientData.screeningHistory) :
        patientData.screeningHistory[i].type = screening

\* The last evaluation recommends the screening: generatePreventiveCare-
\* Recommendations names it in id, the endpoint names it in type.
Recommended(screening) ==
    \E i \in 1..Len(cds.recommendations) :
        IF cds.op = "generatePreventiveCareRecommendations"
        THEN cds.recommendations[i].id = screening
        ELSE cds.recommendations[i].type = screening

\* C17: a patient whose age or sex is outside a screening's eligibility
\* window gets no recommendation for that screening, whatever is on file for
\* the patient.
C17_OutsideWindowNotApplicable ==
    cds.op # "none" =>
        \A screening \in DOMAIN ScreeningRules :
            ~Eligible(cds.patient, ScreeningRules[screening])
                => ~Recommended(screening)

\* C18: a patient inside a screening's eligibility window with no such
\* screening on file has the screening recommended (due or overdue), never
\* omitted.
C18_InWindowUnscreenedFlagged ==
    cds.op # "none" =>
        \A screening \in DOMAIN ScreeningRules :
            (/\ Eligible(cds.patient, ScreeningRules[screening])
             /\ ~OnFile(cds.patient, screening))
                => Recommended(screening)

-----------------------------------------------------------------------------
(* Claims: CDS cards *)

\* The places of the determinations that are due or overdue.
DueOrOverdue ==
    {i \in 1..Len(cds.determinations) :
        cds.determinations[i].status \in {"due", "overdue"}}

\* The places of the cards about a screening.
CardsOf(ruleId) ==
    {k \in 1..Len(cds.cards) : cds.cards[k].summary = ruleId}

\* C19: generateCards emits exactly one card for each determination that is
\* due or overdue and none for one that is up-to-date or not-applicable, so
\* there are as many cards as due or overdue determinations.
C19_OneCardPerDue ==
    cds.op = "generateCards" =>
        /\ \A i \in 1..Len(cds.determinations) :
               Cardinality(CardsOf(cds.determinations[i].ruleId))
                   = IF i \in DueOrOverdue THEN 1 ELSE 0
        /\ Len(cds.cards) = Cardinality(DueOrOverdue)

\* Cards generated from determinations of all four statuses.
C19_Witness ==
    /\ cds.op = "generateCards"
    /\ Len(cds.cards) = 2
    /\ {cds.determinations[i].status : i \in 1..Len(cds.determinations)}
           = {"due", "overdue", "up-to-date"}
    /\ cds.determinations[1].status = "up-to-date"

\* The days overdue of the determination a card was made from.
DaysOverdueOf(card) ==
    LET i == CHOOSE i \in 1..Len(cds.determinations) :
                 cds.determinations[i].ruleId = card.summary
    IN  cds.determinations[i].daysOverdue

\* C20: the cards are ordered critical before warning before info, and cards
\* with the same indicator by daysOverdue descending.
C20_CardOrder ==
    cds.op = "generateCards" =>
        \A k, l \in 1..Len(cds.cards) :
            k < l =>
                /\ Severity(cds.cards[k].indicator)
                       >= Severity(cds.cards[l].indicator)
                /\ cds.cards[k].indicator = cds.cards[l].indicator
                       => DaysOverdueOf(cds.cards[k])
                              >= DaysOverdueOf(cds.cards[l])

\* Three cards, two of them with the same indicator and different days
\* overdue, made from determinations that came in the opposite order.
C20_Witness ==
    /\ cds.op = "generateCards"
    /\ Len(cds.cards) = 3
    /\ cds.cards[1].indicator = "critical"
    /\ cds.cards[2].indicator = "critical"
    /\ cds.cards[3].indicator = "info"
    /\ DaysOverdueOf(cds.cards[1]) > DaysOverdueOf(cds.cards[2])
    /\ \A i \in 1..3 :
           cds.determinations[i].ruleId = cds.cards[4 - i].summary

-----------------------------------------------------------------------------
(* Health risk assessment: ai-health-analytics.js.  Probabilities and the
   confidence are in hundredths, temperatures in whole degrees. *)

\* new Date(value): a date, or the Invalid Date of an undefined value, whose
\* getFullYear(), getMonth() and getDate() are NaN.
InvalidDate == [valid |-> FALSE, year |-> 0, month |-> 0, day |-> 0]
Date(year, month, day) ==
    [valid |-> TRUE, year |-> year, month |-> month, day |-> day]
DateOf(obj, p) == IF Has(obj, p) THEN obj[p] ELSE InvalidDate

\* calculateAge(dateOfBirth), today being new Date(): with an Invalid Date
\* the difference is NaN, both comparisons are false and NaN is returned.
calculateAge(birthDate, today) ==
    IF ~birthDate.valid THEN NaN
    ELSE LET age == today.year - birthDate.year
             monthDiff == today.month - birthDate.month
         IN  IF monthDiff < 0 \/ (monthDiff = 0 /\ today.day < birthDate.day)
             THEN Number(age - 1)
             ELSE Number(age)

\* x < bound for a number x: false for NaN.
LessThan(x, bound) == ~x.nan /\ x.n < bound
GreaterThan(x, bound) == ~x.nan /\ x.n > bound

calculateAgeRisk(age) ==
    IF LessThan(age, 30) THEN 0
    ELSE IF LessThan(age, 40) THEN 5
    ELSE IF LessThan(age, 50) THEN 10
    ELSE IF LessThan(age, 60) THEN 15
    ELSE IF LessThan(age, 70) THEN 25
    ELSE 35

\* The risk of analyzeBP, analyzeHeartRate and analyzeTemperature; their
\* alerts are read by no caller.
analyzeBP(bloodPressure) ==
    LET systolic == bloodPressure.systolic
        diastolic == bloodPressure.diastolic
    IN  IF systolic >= 180 \/ diastolic >= 120 THEN 30
        ELSE IF systolic >= 140 \/ diastolic >= 90 THEN 20
        ELSE IF systolic >= 130 \/ diastolic >= 80 THEN 10
        ELSE 0

analyzeHeartRate(heartRate) ==
    IF heartRate > 100 THEN 15 ELSE IF heartRate < 60 THEN 10 ELSE 0

analyzeTemperature(temperature) ==
    IF temperature > 103 THEN 25
    ELSE IF temperature * 10 > 1004 THEN 15
    ELSE 0

\* analyzeVitalSigns(vitals): factors stays empty.
analyzeVitalSigns(vitals) ==
    [riskScore |->
         (IF Has(vitals, "bloodPressure")
          THEN analyzeBP(vitals.bloodPressure) ELSE 0)
         + (IF Has(vitals, "heartRate") /\ vitals.heartRate # 0
            THEN analyzeHeartRate(vitals.heartRate) ELSE 0)
         + (IF Has(vitals, "temperature") /\ vitals.temperature # 0
            THEN analyzeTemperature(vitals.temperature) ELSE 0),
     factors |-> <<>>]

\* A null entry of the health history: reading a property of it throws.
Null == [null |-> TRUE]

chronicConditions == <<"diabetes", "hypertension", "heart_disease", "obesity">>

\* record.condition || record.diagnosis, "" standing for undefined.
ConditionOf(record) ==
    IF Has(record, "condition") /\ record.condition # ""
    THEN record.condition
    ELSE IF Has(record, "diagnosis") THEN record.diagnosis ELSE ""

IsChronic(condition) ==
    /\ condition # ""
    /\ \E i \in 1..Len(chronicConditions) :
           Includes(ToLowerCase(condition), chronicConditions[i])

\* analyzeHealthHistory(healthHistory) of a history without null entries.
analyzeHealthHistory(healthHistory) ==
    LET conditions == [i \in 1..Len(healthHistory) |->
                          ConditionOf(healthHistory[i])]
        patientConditions == SelectSeq(conditions, IsChronic)
    IN  [riskScore |-> Len(patientConditions) * 15,
         factors |->
             IF Len(patientConditions) > 0
             THEN <<[type |-> "chronic_conditions",
                     conditions |-> patientConditions,
                     impact |-> "high"]>>
             ELSE <<>>]

\* What the four Math.random() calls of simulateLifestyleRisk decide.
RandomFactors == [smoking : BOOLEAN, sedentary : BOOLEAN,
                  poorDiet : BOOLEAN, stress : BOOLEAN]

\* simulateLifestyleRisk(patientData): the factors are drawn, patientData is
\* not read, and the stress drawn adds nothing.
simulateLifestyleRisk(patientData, simulatedFactors) ==
    [riskScore |-> (IF simulatedFactors.smoking THEN 25 ELSE 0)
                   + (IF simulatedFactors.sedentary THEN 15 ELSE 0)
                   + (IF simulatedFactors.poorDiet THEN 10 ELSE 0),
     factors |->
         (IF simulatedFactors.smoking
          THEN <<[type |-> "smoking", impact |-> "high"]>> ELSE <<>>)
         \o (IF simulatedFactors.sedentary
             THEN <<[type |-> "physical_activity", impact |-> "medium"]>>
             ELSE <<>>)
         \o (IF simulatedFactors.poorDiet
             THEN <<[type |-> "nutrition", impact |-> "medium"]>>
             ELSE <<>>)]

determineUrgency(riskScore) ==
    IF riskScore >= 70 THEN "critical"
    ELSE IF riskScore >= 50 THEN "high"
    ELSE IF riskScore >= 30 THEN "medium"
    ELSE "low"

\* generateRecommendations(analysis) of HealthAnalyticsAI, by type.
generateRecommendations(analysis) ==
    (IF analysis.overallRiskScore > 70
     THEN <<[type |-> "urgent_care", priority |-> "high"]>>
     ELSE IF analysis.overallRiskScore > 40
     THEN <<[type |-> "preventive_care", priority |-> "medium"]>>
     ELSE <<>>)
    \o <<[type |-> "lifestyle", priority |-> "medium"],
         [type |-> "nutrition", priority |-> "medium"],
         [type |-> "wellness", priority |-> "low"]>>

calculateMetabolicRisk(patientData, currentRisk, today) ==
    LET age == calculateAge(DateOf(patientData, "dateOfBirth"), today)
    IN  Min(10 + (IF GreaterThan(age, 45) THEN 10 ELSE 0)
               + (IF currentRisk > 50 THEN 15 ELSE 0),
            80)

generatePredictions(patientData, currentAnalysis, today) ==
    LET riskScore == currentAnalysis.overallRiskScore
        age == calculateAge(DateOf(patientData, "dateOfBirth"), today)
    IN  [shortTerm |->
             IF riskScore > 60
             THEN <<[condition |-> "hypertension_risk", probability |-> 75]>>
             ELSE <<>>,
         mediumTerm |->
             IF GreaterThan(age, 45) /\ riskScore > 40
             THEN <<[condition |-> "cardiovascular_risk",
                     probability |-> 35]>>
             ELSE <<>>,
         longTerm |->
             <<[condition |-> "metabolic_syndrome",
                probability |->
                    calculateMetabolicRisk(patientData, riskScore, today)]>>]

\* assessHealthRisk(patientData, healthHistory, vitals): vitals and
\* healthHistory are skipped when falsy or empty; an exception (a null entry
\* of the history) is caught and answered with what the analysis held then.
assessHealthRisk(patientData, healthHistory, vitals, today, simulatedFactors) ==
    LET analysis == [overallRiskScore |-> 0, riskFactors |-> <<>>,
                     recommendations |-> <<>>, urgency |-> "low",
                     confidence |-> 95, analysisDate |-> today,
                     patientId |-> patientData.id]
        age == calculateAge(DateOf(patientData, "dateOfBirth"), today)
        vitalsRisk == IF vitals = Null
                      THEN [riskScore |-> 0, factors |-> <<>>]
                      ELSE analyzeVitalSigns(vitals)
        afterVitals == calculateAgeRisk(age) + vitalsRisk.riskScore
    IN  IF \E i \in 1..Len(healthHistory) : healthHistory[i] = Null
        THEN [error |-> "Analysis temporarily unavailable", confidence |-> 0]
                 @@ [analysis EXCEPT !.overallRiskScore = afterVitals,
                                     !.riskFactors = vitalsRisk.factors]
        ELSE LET historyRisk == analyzeHealthHistory(healthHistory)
                 lifestyleRisk ==
                     simulateLifestyleRisk(patientData, simulatedFactors)
                 score == afterVitals + historyRisk.riskScore
                              + lifestyleRisk.riskScore
                 scored ==
                     [analysis EXCEPT
                         !.overallRiskScore = score,
                         !.riskFactors = vitalsRisk.factors
                             \o historyRisk.factors \o lifestyleRisk.factors,
                         !.urgency = determineUrgency(score)]
                 recommended ==
                     [scored EXCEPT
                         !.recommendations = generateRecommendations(scored)]
             IN  [predictions |->
                      generatePredictions(patientData, recommended, today)]
                     @@ recommended

AssessHealthRisk(patientData, healthHistory, vitals, today, simulatedFactors) ==
    /\ cds' = [op |-> "assessHealthRisk",
               patient |-> patientData,
               healthHistory |-> healthHistory,
               vitals |-> vitals,
               simulatedFactors |-> simulatedFactors,
               analysis |-> assessHealthRisk(patientData, healthHistory,
                                             vitals, today,
                                             simulatedFactors)]
    /\ UNCHANGED <<resources, now, request, response, inflight, http, pager,
                 ws, hr>>

\* Patients with and without a date of birth, an age and a gender.
AnalyticsPatients ==
    {[id |-> "patient-123"],
     [id |-> "patient-123", dateOfBirth |-> Date(1975, 5, 1)],
     [id |-> "patient-123", dateOfBirth |-> Date(1999, 5, 20)],
     [id |-> "patient-123", age |-> 49, gender |-> "female",
      dateOfBirth |-> Date(1975, 5, 1)]}

HealthHistories ==
    {<<>>,
     <<[condition |-> "Diabetes"], [diagnosis |-> "Flu"]>>,
     <<Null>>}

VitalSigns ==
    {Null,
     [bloodPressure |-> [systolic |-> 150, diastolic |-> 95],
      heartRate |-> 110, temperature |-> 101]}

\* getMonth() counts from 0: 15 May 2024.
Todays == {Date(2024, 4, 15)}

AnalyticsNext ==
    \/ \E patientData \in AnalyticsPatients : PreventiveCare(patientData)
    \/ \E patientData \in AnalyticsPatients, healthHistory \in HealthHistories,
       vitals \in VitalSigns, today \in Todays,
       simulatedFactors \in RandomFactors :
        AssessHealthRisk(patientData, healthHistory, vitals, today,
                         simulatedFactors)

AnalyticsSpec == Init /\ [][AnalyticsNext]_vars

-----------------------------------------------------------------------------
(* Claims: risk assessment *)

\* The risk the last assessment took from everything but the age.
RiskWithoutAge ==
    (IF cds.vitals = Null THEN 0
     ELSE analyzeVitalSigns(cds.vitals).riskScore)
    + (IF Has(cds.analysis, "error") THEN 0
       ELSE analyzeHealthHistory(cds.healthHistory).riskScore
            + simulateLifestyleRisk(cds.patient,
                                    cds.simulatedFactors).riskScore)

\* C21: a patient without a birth date or without a gender gets no
\* recommendation and no risk from a rule gated by age or sex: the
\* preventive-care recommendations are empty, and the risk score holds
\* nothing for the age.
C21_IncompleteDataNoRisk ==
    /\ (/\ cds.op = "generatePreventiveCareRecommendations"
        /\ (~Has(cds.patient, "age") \/ ~Has(cds.patient, "gender")))
           => cds.recommendations = <<>>
    /\ (/\ cds.op = "assessHealthRisk"
        /\ ~Has(cds.patient, "dateOfBirth"))
           => cds.analysis.overallRiskScore = RiskWithoutAge

\* C22: two risk assessments that follow one another on the same patient
\* data, history and vitals return the same risk score, risk factors and
\* recommendations.
C22_Deterministic ==
    [][(/\ cds.op = "assessHealthRisk"
        /\ cds'.op = "assessHealthRisk"
        /\ cds'.patient = cds.patient
        /\ cds'.healthHistory = cds.healthHistory
        /\ cds'.vitals = cds.vitals)
           => /\ cds'.analysis.overallRiskScore
                     = cds.analysis.overallRiskScore
              /\ cds'.analysis.riskFactors = cds.analysis.riskFactors
              /\ cds'.analysis.recommendations
                     = cds.analysis.recommendations]_vars

-----------------------------------------------------------------------------
(* WebSocket server: simple-server.js *)

\* socket.user, the payload of the token authenticateSocket verified.
SocketUsers ==
    {[userId |-> "user_123", role |-> "patient"],
     [userId |-> "provider_001", role |-> "provider"],
     [userId |-> "admin_001", role |-> "admin"]}

MaxSockets == 3

\* connectedUsers[`${socket.user.role}s`]
RoleMap(role) == role \o "s"

\* Map.delete
MapDelete(m, k) == SelectSeq(m, LAMBDA entry : entry.key # k)

getTotalConnectedUsers(connectedUsers) ==
    Len(connectedUsers.admins) + Len(connectedUsers.providers)
        + Len(connectedUsers.patients)

\* io.on('connection'): a new socket of an authenticated user is stored under
\* the user's id in the Map of the user's role, and the count is refreshed.
Connection(socket) ==
    /\ Cardinality(ws.sockets) < MaxSockets
    /\ \A open \in ws.sockets : open.id # socket.id
    /\ LET connectedUsers ==
               [ws.connectedUsers EXCEPT
                   ![RoleMap(socket.user.role)] =
                       MapSet(@, socket.user.userId, socket.id)]
       IN  ws' = [sockets |-> ws.sockets \cup {socket},
                  connectedUsers |-> connectedUsers,
                  systemMetrics |->
                      [activeUsers |->
                           getTotalConnectedUsers(connectedUsers)]]
    /\ UNCHANGED <<resources, now, request, response, inflight, http, pager,
                   cds, hr>>

\* socket.on('disconnect'): the user's id is deleted from the Map of the
\* user's role, and the count is refreshed.
Disconnect(socket) ==
    /\ socket \in ws.sockets
    /\ LET connectedUsers ==
               [ws.connectedUsers EXCEPT
                   ![RoleMap(socket.user.role)] =
                       MapDelete(@, socket.user.userId)]
       IN  ws' = [sockets |-> ws.sockets \ {socket},
                  connectedUsers |-> connectedUsers,
                  systemMetrics |->
                      [activeUsers |->
                           getTotalConnectedUsers(connectedUsers)]]
    /\ UNCHANGED <<resources, now, request, response, inflight, http, pager,
                   cds, hr>>

Sockets == [id : 1..MaxSockets, user : SocketUsers]

SocketNext ==
    \/ \E socket \in Sockets : Connection(socket)
    \/ \E socket \in Sockets : Disconnect(socket)

SocketSpec == Init /\ [][SocketNext]_vars

-----------------------------------------------------------------------------
(* Claims: WebSocket bookkeeping *)

\* The users with at least one open socket.
Online == {socket.user : socket \in ws.sockets}

\* C23: a user is registered in connectedUsers if and only if at least one
\* socket of that user is open, and systemMetrics.activeUsers counts these
\* users.
C23_RegisteredIffConnected ==
    /\ \A user \in SocketUsers :
           MapHas(ws.connectedUsers[RoleMap(user.role)], user.userId)
               <=> user \in Online
    /\ ws.systemMetrics.activeUsers = Cardinality(Online)

-----------------------------------------------------------------------------
(* Risk models: js/ml-service.js.  Risks, probabilities and confidences are
   in thousandths. *)

\* str.split(separator) with a separator of any length.
RECURSIVE SplitOn(_, _)
SplitOn(str, sep) ==
    IF ~Includes(str, sep) THEN <<str>>
    ELSE LET i == CHOOSE i \in 1..Len(str) :
                     /\ SubSeq(str, i, i + Len(sep) - 1) = sep
                     /\ \A j \in 1..(i - 1) :
                            SubSeq(str, j, j + Len(sep) - 1) # sep
         IN  <<SubSeq(str, 1, i - 1)>>
                 \o SplitOn(SubSeq(str, i + Len(sep), Len(str)), sep)

\* str.trim() of a string whose only white space is the blank.
RECURSIVE TrimEnd(_)
TrimEnd(s) ==
    IF s # "" /\ SubSeq(s, Len(s), Len(s)) = " "
    THEN TrimEnd(SubSeq(s, 1, Len(s) - 1))
    ELSE s
Trim(s) == TrimEnd(SkipSpace(s))

\* this.models.cancer.rules
cancerRules ==
    <<[condition |-> "age > 50 AND family_history", risk |-> 400],
      [condition |-> "smoking AND age > 45", risk |-> 350],
      [condition |-> "family_history AND gender=female", risk |-> 300],
      [condition |-> "age > 65", risk |-> 250],
      [condition |-> "smoking OR alcohol=heavy", risk |-> 200]>>

\* The features that hold a number and those that hold a string.
NumberFeatures == {"age", "bmi", "hba1c", "glucose"}
StringFeatures ==
    {"gender", "alcohol", "exercise", "food_security", "housing",
     "transportation"}

\* One conjunct of a condition: cond.trim().split(' ') is taken for feature,
\* operator and value.  With fewer than three words the operator is
\* undefined, and any operator but >, < and = makes the conjunct false.
\* parseFloat reads the integer literals of the rules as parseInt does.
EvaluateConjunct(cond, features) ==
    LET words == Split(Trim(cond), " ")
        feature == words[1]
        operator == IF Len(words) >= 2 THEN words[2] ELSE "undefined"
        value == IF Len(words) >= 3 THEN words[3] ELSE "undefined"
    IN  CASE operator = ">" ->
                 /\ feature \in NumberFeatures
                 /\ Has(features, feature)
                 /\ ~ParseIntStr(value).nan
                 /\ features[feature] > ParseIntStr(value).n
          [] operator = "<" ->
                 /\ feature \in NumberFeatures
                 /\ Has(features, feature)
                 /\ ~ParseIntStr(value).nan
                 /\ features[feature] < ParseIntStr(value).n
          [] operator = "=" ->
                 /\ feature \in StringFeatures
                 /\ Has(features, feature)
                 /\ features[feature] = value
          [] OTHER -> FALSE

\* conditions.every(...) over condition.split(' AND ')
evaluateRuleCondition(condition, features) ==
    LET conditions == SplitOn(condition, " AND ")
    IN  \A i \in 1..Len(conditions) :
            EvaluateConjunct(conditions[i], features)

RECURSIVE MaxRisk(_)
MaxRisk(rules) ==
    IF rules = <<>> THEN 0 ELSE Max(Head(rules).risk, MaxRisk(Tail(rules)))

calculateDecisionTree(features, model) ==
    LET matchedRules ==
            SelectSeq(model.rules,
                      LAMBDA rule :
                          evaluateRuleCondition(rule.condition, features))
    IN  [probability |-> MaxRisk(matchedRules),
         confidence |-> IF Len(matchedRules) > 0 THEN 800 ELSE 300,
         matchedRules |-> matchedRules]

CalculateDecisionTree(features) ==
    /\ cds' = [op |-> "calculateDecisionTree",
               features |-> features,
               result |-> calculateDecisionTree(features,
                                                [rules |-> cancerRules])]
    /\ UNCHANGED <<resources, now, request, response, inflight, http, pager,
                   ws, hr>>

\* The features the cancer rules name, on both sides of every bound.
CancerFeatures ==
    [age : {30, 46, 51, 66},
     gender : {"female", "male"},
     family_history : {<<>>, <<"breast cancer">>},
     smoking : BOOLEAN,
     alcohol : {"none", "heavy"}]

\* this.models: weights, intercepts and thresholds in thousandths.
models ==
    [diabetes |->
         [type |-> "logistic_regression",
          weights |-> <<[feature |-> "age", weight |-> 45],
                        [feature |-> "bmi", weight |-> 80],
                        [feature |-> "family_history", weight |-> 150],
                        [feature |-> "hba1c", weight |-> 250],
                        [feature |-> "glucose", weight |-> 200],
                        [feature |-> "bp", weight |-> 50],
                        [feature |-> "activity_level", weight |-> 0 - 60]>>,
          intercept |-> 0 - 2100,
          thresholds |-> [low |-> 150, medium |-> 350, high |-> 550]],
     cardiovascular |->
         [type |-> "ensemble",
          weights |-> <<[feature |-> "age", weight |-> 80],
                        [feature |-> "gender", weight |-> 30],
                        [feature |-> "smoking", weight |-> 180],
                        [feature |-> "bp", weight |-> 150],
                        [feature |-> "cholesterol", weight |-> 120],
                        [feature |-> "diabetes", weight |-> 100],
                        [feature |-> "family_history", weight |-> 120],
                        [feature |-> "activity", weight |-> 0 - 80]>>,
          intercept |-> 0 - 1800,
          thresholds |-> [low |-> 200, medium |-> 400, high |-> 600]],
     cancer |->
         [type |-> "decision_tree",
          rules |-> cancerRules,
          thresholds |-> [low |-> 100, medium |-> 250, high |-> 400]],
     bone_health |->
         [type |-> "linear_regression",
          weights |-> <<[feature |-> "age", weight |-> 60],
                        [feature |-> "gender", weight |-> 120],
                        [feature |-> "bmi", weight |-> 0 - 40],
                        [feature |-> "calcium", weight |-> 0 - 80],
                        [feature |-> "vitamin_d", weight |-> 0 - 60],
                        [feature |-> "exercise", weight |-> 0 - 50],
                        [feature |-> "smoking", weight |-> 70]>>,
          intercept |-> 0 - 1500,
          thresholds |-> [low |-> 150, medium |-> 300, high |-> 450]]]

\* The methods the class defines; calculateConditionRisk also calls
\* calculateEnsemble, calculateLinearRegression, explainDecisionTree,
\* explainEnsemble and explainLinearRegression, which it does not define.
MlServiceMethods ==
    {"calculateLogisticRegression", "calculateDecisionTree",
     "explainLogisticRegression", "normalizeFeatureValue",
     "humanizeFeatureName", "humanizeFeatureValue", "categorizeRisk",
     "calculateSocialDeterminantAdjustment", "evaluateRuleCondition"}

\* normalizeFeatureValue, in hundredths.
normalizeFeatureValue(features, featureName) ==
    IF ~Has(features, featureName) THEN 0
    ELSE LET value == features[featureName]
         IN  CASE featureName = "age" -> Min(100, Max(0, value))
               [] featureName = "bmi" -> Min(50, Max(15, value)) * 2
               [] featureName = "family_history" -> Len(value) * 10
               [] featureName = "smoking" -> IF value THEN 100 ELSE 0
               [] featureName = "exercise" ->
                      CASE value = "moderate" -> 60
                        [] value = "vigorous" -> 100
                        [] OTHER -> 30
               [] OTHER ->
                      IF featureName \in NumberFeatures
                      THEN Min(1, Max(0, value)) * 100
                      ELSE 0

Abs(x) == IF x < 0 THEN 0 - x ELSE x

\* 1 / (1 + Math.exp(-x)) in millionths, for x in hundred-thousandths: the
\* values of the two linear combinations of the diabetes model to which no
\* factor contributes more than 0.01.
Sigmoid(x) ==
    CASE x = 0 - 210000 -> 109097
      [] x = 0 - 209100 -> 109975

\* Contributions and the linear combination are in hundred-thousandths,
\* the probability in millionths, the confidence in thousandths.
RECURSIVE SumContributions(_)
SumContributions(cs) ==
    IF cs = <<>> THEN 0 ELSE Head(cs).contribution + SumContributions(Tail(cs))

calculateLogisticRegression(features, model) ==
    LET contributions ==
            [i \in 1..Len(model.weights) |->
                [feature |-> model.weights[i].feature,
                 contribution |->
                     model.weights[i].weight
                         * normalizeFeatureValue(features,
                                                 model.weights[i].feature)]]
        linearCombination ==
            model.intercept * 100 + SumContributions(contributions)
    IN  [linearCombination |-> linearCombination,
         confidence |-> Min(1000, Abs(linearCombination) \div 200 + 500),
         contributingFactors |->
             SelectSeq(contributions,
                       LAMBDA c : Abs(c.contribution) > 1000)]

\* explainLogisticRegression reads topFactor.factor, a property the
\* contributing factors do not have (theirs is named feature), and
\* humanizeFeatureName(undefined) throws a TypeError on feature.replace.
ExplainLogisticRegressionThrows(result) == result.contributingFactors # <<>>

\* calculateSocialDeterminantAdjustment: the factors of the multiplier, in
\* hundredths.
calculateSocialDeterminantAdjustment(features) ==
    LET Factor(p, values, f) ==
            IF Has(features, p) /\ features[p] \in values THEN f ELSE 100
    IN  <<Factor("food_security", {"insecure", "very_insecure"}, 110),
          Factor("housing", {"unstable", "homeless"}, 115),
          Factor("transportation", {"limited", "none"}, 108)>>

\* score * multiplier, one factor at a time to stay within 32 bits.
RECURSIVE Multiply(_, _)
Multiply(score, factors) ==
    IF factors = <<>> THEN score
    ELSE Multiply((score * Head(factors)) \div 100, Tail(factors))

\* categorizeRisk: score in millionths, thresholds in thousandths.
categorizeRisk(score, thresholds) ==
    CASE score >= thresholds.high * 1000 -> "high"
      [] score >= thresholds.medium * 1000 -> "medium"
      [] OTHER -> "low"

\* The result of the catch block.
FallbackRisk == [score |-> 500, confidence |-> 100, riskLevel |-> "unknown"]

ModelTypes ==
    {"logistic_regression", "decision_tree", "ensemble", "linear_regression"}

\* calculateConditionRisk: score and confidence in thousandths.  A call of
\* a method the class does not define throws a TypeError inside the try
\* block, as does the default case of the switch.
calculateConditionRisk(features, model) ==
    LET Adjusted(probability, confidence) ==
            LET score ==
                    Max(0, Min(1000000,
                        Multiply(probability,
                                 calculateSocialDeterminantAdjustment(
                                     features))))
            IN  [score |-> (score + 500) \div 1000,
                 confidence |-> confidence,
                 riskLevel |-> categorizeRisk(score, model.thresholds)]
    IN  CASE model.type = "logistic_regression" ->
                 LET logisticResult ==
                         calculateLogisticRegression(features, model)
                 IN  IF ExplainLogisticRegressionThrows(logisticResult)
                     THEN FallbackRisk
                     ELSE Adjusted(Sigmoid(logisticResult.linearCombination),
                                   logisticResult.confidence)
          [] model.type = "decision_tree" ->
                 LET treeResult == calculateDecisionTree(features, model)
                 IN  IF "explainDecisionTree" \in MlServiceMethods
                     THEN Adjusted(treeResult.probability * 1000,
                                   treeResult.confidence)
                     ELSE FallbackRisk
          [] model.type = "ensemble" ->
                 IF "calculateEnsemble" \in MlServiceMethods
                 THEN Adjusted(0, 1000)
                 ELSE FallbackRisk
          [] model.type = "linear_regression" ->
                 IF "calculateLinearRegression" \in MlServiceMethods
                 THEN Adjusted(0, 1000)
                 ELSE FallbackRisk
          [] OTHER -> FallbackRisk

\* A model of a type the switch does not know.
UnknownModel ==
    [type |-> "neural_network",
     thresholds |-> [low |-> 150, medium |-> 350, high |-> 550]]

ConditionModels ==
    {[condition |-> c, model |-> models[c]] : c \in DOMAIN models}
        \cup {[condition |-> "sleep", model |-> UnknownModel]}

CalculateConditionRisk(condition, features, model) ==
    /\ cds' = [op |-> "calculateConditionRisk",
               condition |-> condition,
               features |-> features,
               model |-> model,
               result |-> calculateConditionRisk(features, model)]
    /\ UNCHANGED <<resources, now, request, response, inflight, http, pager,
                   ws, hr>>

\* Features of young patients without laboratory values, to which no factor
\* of the diabetes model contributes, next to the cancer features.
MlFeatures ==
    CancerFeatures
        \cup {[age |-> 20, gender |-> "female"],
              [age |-> 20, gender |-> "male", food_security |-> "insecure"],
              [age |-> 0, gender |-> "unknown", housing |-> "homeless",
               transportation |-> "none"],
              [age |-> 20, gender |-> "male", hba1c |-> 6, glucose |-> 95]}

MlNext ==
    \/ \E features \in CancerFeatures : CalculateDecisionTree(features)
    \/ \E cm \in ConditionModels, features \in MlFeatures :
           CalculateConditionRisk(cm.condition, features, cm.model)

MlSpec == Init /\ [][MlNext]_vars

\* The usual reading of the conditions of the cancer rules.
UsualReading(features) ==
    <<features.age > 50 /\ features.family_history # <<>>,
      features.smoking /\ features.age > 45,
      features.family_history # <<>> /\ features.gender = "female",
      features.age > 65,
      features.smoking \/ features.alcohol = "heavy">>

ExpectedRisk(features) ==
    MaxRisk(SelectSeq([i \in 1..Len(cancerRules) |->
                          [risk |-> cancerRules[i].risk,
                           holds |-> UsualReading(features)[i]]],
                      LAMBDA r : r.holds))

\* C24: calculateDecisionTree returns for the cancer model the highest risk
\* among the rules whose condition is true of the features under the usual
\* reading of AND, OR and bare boolean features (0.4 for age > 50 with a
\* family history, 0.2 for a smoker), and 0 with confidence 0.3 when no rule
\* is true.
C24_HighestMatchingRisk ==
    cds.op = "calculateDecisionTree" =>
        /\ cds.result.probability = ExpectedRisk(cds.features)
        /\ ExpectedRisk(cds.features) = 0 =>
               cds.result.confidence = 300

\* C25: for each configured model calculateConditionRisk returns a risk level
\* of low, medium or high, and the fallback result only for a model type
\* outside the four known ones.
C25_FallbackOnlyForUnknownType ==
    cds.op = "calculateConditionRisk" =>
        /\ cds.model.type \in ModelTypes =>
               cds.result.riskLevel \in {"low", "medium", "high"}
        /\ cds.result = FallbackRisk => cds.model.type \notin ModelTypes

-----------------------------------------------------------------------------
(* Claims about the FHIR store under searches, creates and updates *)

\* C26: a Patient search with a name filter is answered with a searchset
\* Bundle in every reachable state of the store, Patients stored without
\* name, given or family included; it never ends in the 500 of the catch
\* block.
C26_NameSearchNeverThrows ==
    (/\ request.op = "search"
     /\ request.rtype = "Patient"
     /\ Supplied(request.query, "name")) =>
        /\ response.status = 200
        /\ response.body.resourceType = Str("Bundle")

\* C27: every resource of a resource map has the id it is stored under,
\* after any sequence of creates and updates.
C27_IdIsKey ==
    \A t \in ResourceTypes :
        \A i \in 1..Len(resources[t]) :
            /\ Has(resources[t][i].value, "id")
            /\ resources[t][i].value.id = resources[t][i].key

\* An update whose body carries another id than the path has been stored,
\* next to a resource created with an id of its own.
C27_Witness ==
    /\ request.op = "update"
    /\ response.status = 200
    /\ Has(request.body, "id")
    /\ request.body.id # Str(request.id)
    /\ MapGet(resources.Patient, Str(request.id))[1].id = Str(request.id)
    /\ \E i \in 1..Len(resources.Patient) :
           resources.Patient[i].key \in {Str("a"), Num("7")}

-----------------------------------------------------------------------------
(* Health Records API: api/health-records-api.js.  The database is the    *)
(* variable hr; request and response hold the last request and its        *)
(* answer.  The clock counts days.  Requests are those the rate limiter   *)
(* lets through.                                                           *)

\* Days the clock runs, and sessions that are opened.
MaxDay == 1
MaxSessions == 2

\* this.database.users: the sample user of initializeDatabase, and a second
\* user as the database of a deployment holds.  bcrypt.compare is the
\* comparison with the password the hash was made of.
users ==
    <<[key |-> "user_demo",
       value |-> [id |-> "user_demo", email |-> "harsh.singhal@onecare.com",
                  password |-> "demo123", role |-> "patient"]],
      [key |-> "user_dr",
       value |-> [id |-> "user_dr", email |-> "dr@onecare.com",
                  password |-> "dr456", role |-> "provider"]]>>

\* expiresIn: '24h' and '7d', in days.
AccessTokenDays == 1
RefreshTokenDays == 7

\* jwt.sign(tokenPayload, this.jwtSecret, { expiresIn: '24h' })
SignAccessToken(user, sessionId, day) ==
    [type |-> "access", id |-> user.id, email |-> user.email,
     role |-> user.role, sessionId |-> sessionId,
     exp |-> day + AccessTokenDays]

\* jwt.sign({ sessionId }, this.jwtSecret, { expiresIn: '7d' })
SignRefreshToken(sessionId, day) ==
    [type |-> "refresh", sessionId |-> sessionId,
     exp |-> day + RefreshTokenDays]

\* No Authorization header, and a token this server did not sign.
NoToken == [type |-> "none"]
ForgedToken == [type |-> "forged", sessionId |-> "uuid-1", exp |-> 99]

\* jwt.verify succeeds on a token signed with jwtSecret whose exp lies
\* ahead.
JwtVerifies(db, token) == token \in db.tokens /\ db.day < token.exp

HrError(status, error, code) ==
    [status |-> status, body |-> [error |-> error, code |-> code]]

SessionExpired == HrError(403, "Session expired", "SESSION_EXPIRED")
TokenInvalid == HrError(403, "Invalid or expired token", "AUTH_TOKEN_INVALID")
RefreshTokenInvalid ==
    HrError(403, "Invalid refresh token", "REFRESH_TOKEN_INVALID")

\* next(): the request goes on to its handler with req.user set.
PassedOn(user) == [status |-> 0, user |-> user]

\* authenticateToken with the session check reduced to !session.
hrAuthenticateTokenAnySession(db, token) ==
    CASE token = NoToken ->
             HrError(401, "Access token required", "AUTH_TOKEN_MISSING")
      [] ~JwtVerifies(db, token) -> TokenInvalid
      [] ~MapHas(db.sessions, token.sessionId) -> SessionExpired
      [] OTHER -> PassedOn(token)

\* authenticateToken of the Health Records API.
hrAuthenticateToken(db, token) ==
    CASE token = NoToken ->
             HrError(401, "Access token required", "AUTH_TOKEN_MISSING")
      [] ~JwtVerifies(db, token) -> TokenInvalid
      [] \/ ~MapHas(db.sessions, token.sessionId)
         \/ MapGet(db.sessions, token.sessionId)[1].expired ->
             SessionExpired
      [] OTHER -> PassedOn(token)

\* The tokens a client puts in the Authorization header: an access token it
\* was given, none, or one of its own making.
PresentedTokens ==
    {t \in hr.tokens : t.type = "access"} \cup {NoToken, ForgedToken}

\* Array.from(users.values()).find(u => u.email === email)
FindUserByEmail(email) ==
    SelectSeq(MapValues(users), LAMBDA u : u.email = email)

Credentials ==
    {[email |-> "harsh.singhal@onecare.com", password |-> "demo123"],
     [email |-> "harsh.singhal@onecare.com", password |-> "guess"],
     [email |-> "dr@onecare.com", password |-> "dr456"],
     [email |-> "", password |-> ""]}

\* POST /api/health-records/auth/login
login(credentials) ==
    /\ request' = [op |-> "login", body |-> credentials]
    /\ now' = now
    /\ resources' = resources
    /\ LET found == FindUserByEmail(credentials.email)
           missing == credentials.email = "" \/ credentials.password = ""
           validPassword ==
               found # <<>> /\ found[1].password = credentials.password
       IN  \/ /\ missing
              /\ response' = HrError(400, "Email and password are required",
                                     "MISSING_CREDENTIALS")
              /\ hr' = hr
           \/ /\ ~missing
              /\ ~validPassword
              /\ response' = HrError(401, "Invalid credentials",
                                     "INVALID_CREDENTIALS")
              /\ hr' = hr
           \/ /\ ~missing
              /\ validPassword
              /\ Len(hr.sessions) < MaxSessions
              /\ LET sessionId == Uuid(hr.uuids + 1)
                     session == [id |-> sessionId, userId |-> found[1].id,
                                 expired |-> FALSE]
                     accessToken ==
                         SignAccessToken(found[1], sessionId, hr.day)
                     refreshToken == SignRefreshToken(sessionId, hr.day)
                 IN  /\ hr' = [hr EXCEPT
                                  !.uuids = @ + 1,
                                  !.sessions = MapSet(@, sessionId, session),
                                  !.tokens = @ \cup {accessToken,
                                                     refreshToken}]
                     /\ response' =
                            [status |-> 200,
                             body |-> [success |-> TRUE,
                                       accessToken |-> accessToken,
                                       refreshToken |-> refreshToken]]

\* GET /api/health-records/categories: authenticateToken, then getCategories.
getCategories(token) ==
    /\ request' = [op |-> "getCategories", token |-> token]
    /\ LET auth == hrAuthenticateToken(hr, token)
       IN  response' =
               IF auth.status # 0 THEN auth
               ELSE [status |-> 200, body |-> [success |-> TRUE]]
    /\ UNCHANGED <<resources, now, hr>>

\* POST /api/health-records/auth/refresh: authenticateToken, then
\* refreshToken.
refreshToken(token, body) ==
    /\ request' = [op |-> "refresh", token |-> token, body |-> body]
    /\ UNCHANGED <<resources, now>>
    /\ LET auth == hrAuthenticateToken(hr, token)
       IN  CASE auth.status # 0 ->
                    /\ response' = auth
                    /\ hr' = hr
             [] ~Has(body, "refreshToken") ->
                    /\ response' = HrError(400, "Refresh token required",
                                           "REFRESH_TOKEN_MISSING")
                    /\ hr' = hr
             [] \/ ~JwtVerifies(hr, body.refreshToken)
                \/ ~MapHas(hr.sessions, body.refreshToken.sessionId)
                \/ MapGet(hr.sessions,
                          body.refreshToken.sessionId)[1].expired ->
                    /\ response' = RefreshTokenInvalid
                    /\ hr' = hr
             [] OTHER ->
                    LET session ==
                            MapGet(hr.sessions,
                                   body.refreshToken.sessionId)[1]
                        user == MapGet(users, session.userId)[1]
                        accessToken ==
                            SignAccessToken(user, session.id, hr.day)
                    IN  /\ hr' = [hr EXCEPT !.tokens = @ \cup {accessToken}]
                        /\ response' =
                               [status |-> 200,
                                body |-> [success |-> TRUE,
                                          accessToken |-> accessToken]]

\* POST /api/health-records/auth/logout: authenticateToken, then logout.
logout(token) ==
    /\ request' = [op |-> "logout", token |-> token]
    /\ UNCHANGED <<resources, now>>
    /\ LET auth == hrAuthenticateToken(hr, token)
       IN  IF auth.status # 0
           THEN /\ response' = auth
                /\ hr' = hr
           ELSE /\ hr' = [hr EXCEPT
                             !.sessions =
                                 MapSet(@, token.sessionId,
                                        [MapGet(@, token.sessionId)[1]
                                            EXCEPT !.expired = TRUE])]
                /\ response' =
                       [status |-> 200,
                        body |-> [success |-> TRUE,
                                  message |-> "Logged out successfully"]]

\* A day passes.
NextDay ==
    /\ hr.day < MaxDay
    /\ hr' = [hr EXCEPT !.day = @ + 1]
    /\ UNCHANGED <<resources, now, request, response>>

\* The bodies of a refresh: empty, or with a refresh token the client was
\* given or one of its own making.
RefreshBodies ==
    {<<>>}
        \cup {[refreshToken |-> t] :
                  t \in {u \in hr.tokens : u.type = "refresh"}
                            \cup {ForgedToken}}

SessionNext ==
    /\ UNCHANGED <<inflight, http, pager, cds, ws>>
    /\ \/ \E credentials \in Credentials : login(credentials)
       \/ \E token \in PresentedTokens : getCategories(token)
       \/ \E token \in PresentedTokens, body \in RefreshBodies :
              refreshToken(token, body)
       \/ \E token \in PresentedTokens : logout(token)
       \/ NextDay

SessionSpec == Init /\ [][SessionNext]_vars

\* logout has run for the session.
LoggedOut(db, sessionId) ==
    /\ MapHas(db.sessions, sessionId)
    /\ MapGet(db.sessions, sessionId)[1].expired

\* The step serves a request on a route behind authenticateToken that
\* carries an access token of a session for which logout has run.
ServesLoggedOutToken ==
    /\ <<request, response>>' # <<request, response>>
    /\ request'.op \in {"getCategories", "refresh", "logout"}
    /\ request'.token.type = "access"
    /\ LoggedOut(hr, request'.token.sessionId)

\* The step serves a refresh with the refresh token of a session for which
\* logout has run.
ServesLoggedOutRefresh ==
    /\ <<request, response>>' # <<request, response>>
    /\ request'.op = "refresh"
    /\ Has(request'.body, "refreshToken")
    /\ request'.body.refreshToken.type = "refresh"
    /\ LoggedOut(hr, request'.body.refreshToken.sessionId)

\* An expired session stays expired, and a refresh with its refresh token
\* gives no access token.
StaysLoggedOut ==
    /\ \A i \in 1..Len(hr.sessions) :
           hr.sessions[i].value.expired =>
               LoggedOut(hr', hr.sessions[i].key)
    /\ ServesLoggedOutRefresh =>
           /\ response'.status # 200
           /\ hr'.tokens = hr.tokens

-----------------------------------------------------------------------------
(* Health Records API: records, shares and files.  The actions are the     *)
(* handlers behind authenticateToken, entered with req.user set to a user  *)
(* of the database.  deleteRecord awaits the removal of the files before   *)
(* it removes the record and its shares in one piece; no other handler     *)
(* awaits between its reads and its writes of the database.                *)

\* The uuids drawn for records and shares.
MaxUuids == 3

\* req.user: the payload of the access token.
ReqUsers ==
    {[id |-> users[i].value.id, email |-> users[i].value.email] :
        i \in 1..Len(users)}

\* this.database.categories
categories == {"lab-results", "imaging", "prescriptions", "other"}

\* The permissions of a share whose request names none.
DefaultPermissions == [view |-> TRUE, download |-> FALSE, comment |-> FALSE]

\* calculateExpiryDate, in days from now: <<>> for null.
calculateExpiryDate(expiresIn, day) ==
    CASE expiresIn = "24h" -> <<day + 1>>
      [] expiresIn = "7d" -> <<day + 7>>
      [] expiresIn = "30d" -> <<day + 30>>
      [] expiresIn = "90d" -> <<day + 90>>
      [] OTHER -> <<>>

RecordNotFound == HrError(404, "Record not found", "RECORD_NOT_FOUND")
AccessDenied == HrError(403, "Access denied", "ACCESS_DENIED")

\* POST /api/health-records/records
createRecord(user, body) ==
    /\ request' = [op |-> "createRecord", user |-> user, body |-> body]
    /\ IF ~Has(body, "title") \/ ~Has(body, "category")
       THEN /\ response' = HrError(400, "Title and category are required",
                                   "MISSING_REQUIRED_FIELDS")
            /\ hr' = hr
       ELSE IF body.category \notin categories
       THEN /\ response' = HrError(400, "Invalid category",
                                   "INVALID_CATEGORY")
            /\ hr' = hr
       ELSE /\ hr.uuids < MaxUuids
            /\ LET record == [id |-> Uuid(hr.uuids + 1),
                              userId |-> user.id,
                              title |-> body.title,
                              shared |-> FALSE,
                              files |-> body.files]
               IN  /\ hr' = [hr EXCEPT
                                !.uuids = @ + 1,
                                !.records = MapSet(@, record.id, record)]
                   /\ response' = [status |-> 201,
                                   body |-> [success |-> TRUE,
                                             data |-> record]]
    /\ UNCHANGED <<resources, now>>

\* The shares of emails.map(...), each with a uuid of its own.
NewShares(id, user, body, first, day) ==
    [i \in 1..Len(body.emails) |->
        LET expiresAt ==
                IF Has(body, "expiresIn") /\ body.expiresIn # "never"
                THEN calculateExpiryDate(body.expiresIn, day)
                ELSE <<>>
            share == [id |-> Uuid(first + i),
                      recordId |-> id,
                      sharedBy |-> user.id,
                      sharedWith |-> body.emails[i],
                      permissions |-> IF Has(body, "permissions")
                                      THEN body.permissions
                                      ELSE DefaultPermissions]
        IN  IF expiresAt = <<>> THEN share
            ELSE share @@ [expiresAt |-> expiresAt[1]]]

RECURSIVE SetAll(_, _)
SetAll(m, shares) ==
    IF shares = <<>> THEN m
    ELSE SetAll(MapSet(m, Head(shares).id, Head(shares)), Tail(shares))

\* POST /api/health-records/records/:id/share
shareRecord(user, id, body) ==
    /\ request' = [op |-> "shareRecord", user |-> user, id |-> id,
                   body |-> body]
    /\ LET found == MapGet(hr.records, id)
       IN  IF found = <<>>
           THEN /\ response' = RecordNotFound
                /\ hr' = hr
           ELSE IF found[1].userId # user.id
           THEN /\ response' = AccessDenied
                /\ hr' = hr
           ELSE IF ~Has(body, "emails") \/ body.emails = <<>>
           THEN /\ response' = HrError(400, "Email addresses required",
                                       "EMAILS_REQUIRED")
                /\ hr' = hr
           ELSE /\ hr.uuids + Len(body.emails) <= MaxUuids
                /\ LET shares == NewShares(id, user, body, hr.uuids, hr.day)
                   IN  /\ hr' = [hr EXCEPT
                                    !.uuids = @ + Len(shares),
                                    !.shares = SetAll(@, shares),
                                    !.records =
                                        MapSet(@, id,
                                               [found[1] EXCEPT
                                                   !.shared = TRUE])]
                       /\ response' = [status |-> 200,
                                       body |-> [success |-> TRUE,
                                                 data |-> shares]]
    /\ UNCHANGED <<resources, now>>

\* DELETE /api/health-records/shares/:id
revokeShare(user, id) ==
    /\ request' = [op |-> "revokeShare", user |-> user, id |-> id]
    /\ LET found == MapGet(hr.shares, id)
       IN  IF found = <<>>
           THEN /\ response' = HrError(404, "Share not found",
                                       "SHARE_NOT_FOUND")
                /\ hr' = hr
           ELSE IF found[1].sharedBy # user.id
           THEN /\ response' = AccessDenied
                /\ hr' = hr
           ELSE /\ hr' = [hr EXCEPT !.shares = MapDelete(@, id)]
                /\ response' =
                       [status |-> 200,
                        body |-> [success |-> TRUE,
                                  message |-> "Share revoked successfully"]]
    /\ UNCHANGED <<resources, now>>

\* DELETE /api/health-records/records/:id
deleteRecord(user, id) ==
    /\ request' = [op |-> "deleteRecord", user |-> user, id |-> id]
    /\ LET found == MapGet(hr.records, id)
       IN  IF found = <<>>
           THEN /\ response' = RecordNotFound
                /\ hr' = hr
           ELSE IF found[1].userId # user.id
           THEN /\ response' = AccessDenied
                /\ hr' = hr
           ELSE /\ hr' = [hr EXCEPT
                             !.records = MapDelete(@, id),
                             !.shares =
                                 SelectSeq(@, LAMBDA entry :
                                                  entry.value.recordId # id)]
                /\ response' =
                       [status |-> 200,
                        body |-> [success |-> TRUE,
                                  message |-> "Record deleted successfully"]]
    /\ UNCHANGED <<resources, now>>

\* shares.some(share => share.recordId === recordId
\*     && share.sharedWith === req.user.email
\*     && (!share.expiresAt || new Date(share.expiresAt) > new Date()))
SharedWithUser(db, recordId, user) ==
    \E i \in 1..Len(db.shares) :
        LET share == db.shares[i].value
        IN  /\ share.recordId = recordId
            /\ share.sharedWith = user.email
            /\ ~Has(share, "expiresAt") \/ share.expiresAt > db.day

\* GET /api/health-records/files/:recordId/:filename
downloadFile(user, recordId, filename) ==
    /\ request' = [op |-> "downloadFile", user |-> user,
                   recordId |-> recordId, filename |-> filename]
    /\ LET found == MapGet(hr.records, recordId)
       IN  response' =
               IF found = <<>> THEN RecordNotFound
               ELSE IF /\ found[1].userId # user.id
                       /\ ~SharedWithUser(hr, recordId, user)
               THEN AccessDenied
               ELSE IF \A i \in 1..Len(found[1].files) :
                           found[1].files[i] # filename
               THEN HrError(404, "File not found", "FILE_NOT_FOUND")
               ELSE [status |-> 200, body |-> [download |-> filename]]
    /\ UNCHANGED <<resources, now, hr>>

RecordBodies ==
    {[title |-> "Scan", category |-> "imaging", files |-> <<"scan.pdf">>],
     [title |-> "Scan", category |-> "x-ray", files |-> <<>>]}

ShareBodies ==
    {[emails |-> <<"dr@onecare.com">>],
     [emails |-> <<"dr@onecare.com">>, expiresIn |-> "24h",
      permissions |-> [view |-> TRUE, download |-> TRUE, comment |-> FALSE]],
     [emails |-> <<"harsh.singhal@onecare.com">>, expiresIn |-> "never"],
     [expiresIn |-> "7d"]}

\* Ids a client puts in a path: those of the database and one of none.
RecordIds == {hr.records[i].key : i \in 1..Len(hr.records)} \cup {"none"}
ShareIds == {hr.shares[i].key : i \in 1..Len(hr.shares)} \cup {"none"}

RecordsNext ==
    /\ UNCHANGED <<inflight, http, pager, cds, ws>>
    /\ \/ \E user \in ReqUsers, body \in RecordBodies :
              createRecord(user, body)
       \/ \E user \in ReqUsers, id \in RecordIds, body \in ShareBodies :
              shareRecord(user, id, body)
       \/ \E user \in ReqUsers, id \in ShareIds : revokeShare(user, id)
       \/ \E user \in ReqUsers, id \in RecordIds : deleteRecord(user, id)
       \/ \E user \in ReqUsers, id \in RecordIds,
             filename \in {"scan.pdf", "none.pdf"} :
              downloadFile(user, id, filename)
       \/ NextDay

RecordsSpec == Init /\ [][RecordsNext]_vars

\* The shares of a record.
SharesOf(db, recordId) ==
    {i \in 1..Len(db.shares) : db.shares[i].value.recordId = recordId}

\* C29: after any sequence of shareRecord, revokeShare and deleteRecord every
\* share refers to a record that still exists, and a record's shared flag is
\* true exactly when a share of that record exists.
C29_SharedIffShares ==
    /\ \A i \in 1..Len(hr.shares) :
           MapHas(hr.records, hr.shares[i].value.recordId)
    /\ \A i \in 1..Len(hr.records) :
           hr.records[i].value.shared
               <=> SharesOf(hr, hr.records[i].key) # {}

====
